---------------------------- MODULE Spec2Model ----------------------------
(***************************************************************************)
(* EAGLE (src/eagle.c): explicit alternative genome likelihood evaluator.  *)
(*                                                                         *)
(* Specifications of this module:                                          *)
(*   SpecPowerset  powerset()/combinations(), one step per call            *)
(*   Spec          process_variants(): grouping, same-position splitting,  *)
(*                 the worker pool, the final sort and the output          *)
(*   SpecGrouper   the grouping and splitting loops alone, larger inputs   *)
(*   SpecRefCache  workers calling fetch_refseq() concurrently             *)
(*   SpecEval      evaluate_variants() on one hypothesis set               *)
(***************************************************************************)
EXTENDS Integers, Sequences, FiniteSets, TLC

VARIABLES
    ps,         \* powerset(): [pc, n, maxh, k, combo, ncombos, oob]
    varlist,    \* var_vector: the sorted variants, each [chr, pos]; a variant is its index
    distlim,    \* -n
    numproc,    \* -t
    bam,        \* the alignment file: the set of reads, each [chr, pos]
    var_set,    \* process_variants: the array of hypothesis sets written so far
    nsets,      \* process_variants: nsets
    gi, gj, gn, \* process_variants: i, j and n of the grouping and splitting loops
    flag,       \* process_variants: flag
    pc,         \* position of the main thread
    ub,         \* TRUE once var_set has been written past its 2 * nvariants entries
    queue,      \* Work.queue: [size, data], data[k] a job (the index of its set) or NULL
    results,    \* Work.results: [size, data], data[k] an output block or NULL
    q_lock,     \* Work.q_lock: 0 when free, else the worker holding it
    r_lock,     \* Work.r_lock
    wpc,        \* position of each worker in pool()
    warg,       \* pool(): arg of each worker
    wtmp,       \* the vector size a worker has loaded in vector_pop / vector_add
    wout,       \* pool(): outstr of each worker
    output,     \* the lines written to out_fh
    pops,       \* history: how many times each job has been returned by vector_pop
    refseq_hash,  \* the khash: a function from the keys present to their buckets
    refseq_lock,  \* 0 when free, else the worker holding it
    fpc,        \* position of each worker in fetch_refseq()
    fname,      \* fetch_refseq(): name
    ffasta,     \* fetch_refseq(): the Fasta *f malloc'ed at line 537
    fcalls,     \* number of fetch_refseq() calls each worker has made
    nfasta,     \* number of Fasta objects allocated so far
    returned,   \* history: the [name, id] of every Fasta a call has returned
    ev          \* evaluate_variants() on one hypothesis set

psVars == <<ps>>
inVars == <<varlist, distlim, numproc, bam>>
grVars == <<var_set, nsets, gi, gj, gn, flag, pc, ub>>
plVars == <<queue, results, q_lock, r_lock, wpc, warg, wtmp, wout, output, pops>>
rcVars == <<refseq_hash, refseq_lock, fpc, fname, ffasta, fcalls, nfasta, returned>>
evVars == <<ev>>
vars == <<psVars, inVars, grVars, plVars, rcVars, evVars>>

NULL == 0

\* the NULL char * (a block always has at least one line)
NULLSTR == <<>>

(***************************************************************************)
(* Bounds of the model.                                                    *)
(***************************************************************************)
MaxN == 5
MaxMaxh == 11
MaxVariants == 5
MaxChr == 2
MaxPos == 2
MaxDistlim == 1
PipeVariants == 3
PipeProc == 1
PoolVariants == 2
MaxProc == 2
MaxContigs == 2
MaxFetch == 2
MaxSetN == 2
MaxReads == 1
MaxXA == 1
MaxRefLen == 3
MaxVarLen == 2
MaxCombo == 1
MaxReadLen == 2
MaxQual == 2
MaxXaOff == 3

(***************************************************************************)
(* Small helpers.                                                          *)
(***************************************************************************)
Min(a, b) == IF a < b THEN a ELSE b

Max(a, b) == IF a > b THEN a ELSE b

RECURSIVE Pow(_, _)
Pow(b, e) == IF e = 0 THEN 1 ELSE b * Pow(b, e - 1)

Abs(x) == IF x < 0 THEN -x ELSE x

(***************************************************************************)
(* combinations(output, k, n, ncombos), lines 157-181.                     *)
(* The index array c[k] is a function on -1..k-1: cell -1 stands for the   *)
(* word in front of the array, which the carry loop touches when the last  *)
(* combination has been emitted (--i; ++c[i] with i = 0).  oob records     *)
(* that such an access happened.  The output string is a sequence of       *)
(* character codes: index j is written as the character j + '\t' + 1 and   *)
(* every combination is closed by a '\t'.                                  *)
(***************************************************************************)
TAB == 9

\* for (i = 0; i < k; ++i) token[i] = c[i] + '\t' + 1; token[k] = '\t'
Token(c, k) == [j \in 1..(k + 1) |-> IF j <= k THEN c[j - 1] + TAB + 1 ELSE TAB]

\* while ((i >= 0 && i < k) && (c[i] >= n - k + 1 + i)) { --i; ++c[i]; }
RECURSIVE Carry(_, _, _, _, _)
Carry(c, i, k, n, oob) ==
    IF i >= 0 /\ i < k /\ c[i] >= n - k + 1 + i
    THEN Carry([c EXCEPT ![i - 1] = @ + 1], i - 1, k, n, oob \/ (i - 1 < 0))
    ELSE [c |-> c, i |-> i, oob |-> oob]

\* the refill loop of line 178 without its + 1
RECURSIVE RefillSame(_, _, _)
RefillSame(c, i, k) ==
    IF i < k THEN RefillSame([c EXCEPT ![i] = c[i - 1]], i + 1, k) ELSE c

\* for (i = i + 1; i < k; ++i) c[i] = c[i - 1] + 1
RECURSIVE Refill(_, _, _)
Refill(c, i, k) ==
    IF i < k THEN Refill([c EXCEPT ![i] = c[i - 1] + 1], i + 1, k) ELSE c

\* the while (1) loop: one call emits the combination held in c
RECURSIVE CombLoop(_, _, _, _, _, _)
CombLoop(c, k, n, out, cnt, oob) ==
    LET out1 == out \o Token(c, k)
        c1 == [c EXCEPT ![k - 1] = @ + 1]
        cr == Carry(c1, k - 1, k, n, oob)
    IN  IF cr.c[0] > n - k
        THEN [combo |-> out1, ncombos |-> cnt + 1, oob |-> cr.oob]
        ELSE CombLoop(Refill(cr.c, cr.i + 1, k), k, n, out1, cnt + 1, cr.oob)

combinations(out, k, n, ncombos) ==
    CombLoop([j \in -1..(k - 1) |-> IF j < 0 THEN 0 ELSE j], k, n, out, ncombos, FALSE)

(***************************************************************************)
(* powerset(n, ncombos), lines 183-197, as a step function on the record   *)
(* [pc, n, maxh, k, combo, ncombos, oob]: one step is one call of          *)
(* combinations() together with the test that follows it.                  *)
(***************************************************************************)
PowersetStart(n, maxh) ==
    [pc |-> "k1", n |-> n, maxh |-> maxh, k |-> 1, combo |-> <<>>, ncombos |-> 0,
     oob |-> FALSE]

PowersetStep(s) ==
    CASE s.pc = "k1" ->
            LET r == combinations(s.combo, 1, s.n, s.ncombos)
            IN  [s EXCEPT !.combo = r.combo, !.ncombos = r.ncombos,
                          !.oob = s.oob \/ r.oob,
                          !.pc = IF s.n > 1 THEN "kn" ELSE "return"]
      [] s.pc = "kn" ->
            LET r == combinations(s.combo, s.n, s.n, s.ncombos)
            IN  [s EXCEPT !.combo = r.combo, !.ncombos = r.ncombos,
                          !.oob = s.oob \/ r.oob, !.k = 2,
                          !.pc = IF 2 <= s.n - 1 THEN "loop" ELSE "return"]
      [] s.pc = "loop" ->
            LET r == combinations(s.combo, s.k, s.n, s.ncombos)
            IN  [s EXCEPT !.combo = r.combo, !.ncombos = r.ncombos,
                          !.oob = s.oob \/ r.oob,
                          !.k = IF r.ncombos - s.n - 1 >= s.maxh THEN s.k ELSE s.k + 1,
                          !.pc = IF r.ncombos - s.n - 1 >= s.maxh \/ s.k + 1 > s.n - 1
                                 THEN "return" ELSE "loop"]
      [] OTHER -> s

\* --i; ++c[i] of the carry loop (lines 172-173) with i = -1 reads and
\* writes the int in front of the array c[k]: the behaviour is undefined,
\* and the build either returns as if nothing had been touched (the word
\* belongs to the dead token[] of the iteration) or the process dies at the
\* access, as a build that checks stack accesses does
CombOutcomes(oob) == IF oob THEN {"as_if_untouched", "abort"} ELSE {"returned"}

RECURSIVE PowersetRun(_)
PowersetRun(s) == IF s.pc = "return" THEN s ELSE PowersetRun(PowersetStep(s))

powerset(n, maxh) == PowersetRun(PowersetStart(n, maxh))

(***************************************************************************)
(* Vectors (lines 292-343).  A Vector is modelled by the sequence of its   *)
(* size live entries; C index i is position i + 1.                         *)
(***************************************************************************)
\* vector_del(a, i): the three copies of lines 311, 314-316 and 317-320
vector_del(a, i) ==
    LET size == Len(a) - 1
    IN  IF i = size THEN SubSeq(a, 1, size)
        ELSE IF i = 0 /\ size > 0 THEN SubSeq(a, 2, size + 1)
        ELSE SubSeq(a, 1, i) \o SubSeq(a, i + 2, size + 1)

\* vector_dup(a): a new vector holding the same size entries
vector_dup(a) == [k \in 1..Len(a) |-> a[k]]

(***************************************************************************)
(* read_vcf() ends with qsort(nat_sort_var): the list handed on is sorted  *)
(* by chromosome, then position (lines 205, 408).  Chromosome c stands for *)
(* the name "chr<c>", which the comparator orders by its number.           *)
(***************************************************************************)
nat_sort_var(a, b) ==
    IF a.chr = b.chr THEN (IF a.pos > b.pos THEN 1 ELSE 0) - (IF a.pos < b.pos THEN 1 ELSE 0)
    ELSE (IF a.chr > b.chr THEN 1 ELSE 0) - (IF a.chr < b.chr THEN 1 ELSE 0)

RECURSIVE SortedLists(_, _)
SortedLists(keys, len) ==
    IF len = 0 THEN {<<>>}
    ELSE LET shorter == SortedLists(keys, len - 1)
             ext(l) == {Append(l, v) : v \in {k \in keys : l = <<>> \/ nat_sort_var(l[Len(l)], k) <= 0}}
         IN  shorter \cup UNION {ext(l) : l \in {x \in shorter : Len(x) = len - 1}}

Variants(nchr, npos) == [chr : 1..nchr, pos : 1..npos]

(***************************************************************************)
(* process_variants(), lines 914-946: grouping and same-position splitting *)
(***************************************************************************)
nvariants == Len(varlist)

\* the condition of line 922 without its strcmp(): what the grouping loop
\* would test if it compared positions only
NearAnyChr(vl, j, dl) ==
    /\ dl > 0
    /\ j < Len(vl)
    /\ Abs(vl[j + 1].pos - vl[j].pos) <= dl

\* the condition of the inner while of line 922, for C index j
Near(vl, j, dl) ==
    /\ dl > 0
    /\ j < Len(vl)
    /\ vl[j + 1].chr = vl[j].chr
    /\ Abs(vl[j + 1].pos - vl[j].pos) <= dl

\* while (...) vector_add(curr, varlist[j++])
RECURSIVE Extend(_, _, _, _)
Extend(vl, j, dl, curr) ==
    IF Near(vl, j, dl) THEN Extend(vl, j + 1, dl, Append(curr, j + 1))
    ELSE [curr |-> curr, j |-> j]

\* one iteration of while (i < nvariants), lines 918-925
GroupSet ==
    /\ pc = "group"
    /\ gi < nvariants
    /\ LET e == Extend(varlist, gi + 1, distlim, <<gi + 1>>)
       IN  /\ var_set' = Append(var_set, e.curr)
           /\ gi' = e.j
    /\ nsets' = nsets + 1
    /\ UNCHANGED <<gj, gn, flag, pc, ub>>
    /\ UNCHANGED <<psVars, inVars, plVars, rcVars, evVars>>

\* i < nvariants fails; int flag = 1 (line 927)
GroupEnd ==
    /\ pc = "group"
    /\ gi >= nvariants
    /\ flag' = TRUE
    /\ pc' = "while"
    /\ UNCHANGED <<var_set, nsets, gi, gj, gn, ub>>
    /\ UNCHANGED <<psVars, inVars, plVars, rcVars, evVars>>

\* while (flag) { flag = 0; size_t n = 0; for (i = 0; ... (lines 928-931)
SplitWhile ==
    /\ pc = "while"
    /\ IF flag
       THEN /\ flag' = FALSE
            /\ gn' = 0
            /\ gi' = 0
            /\ pc' = "for_i"
       ELSE /\ pc' = "dispatch"
            /\ UNCHANGED <<flag, gn, gi>>
    /\ UNCHANGED <<var_set, nsets, gj, ub>>
    /\ UNCHANGED <<psVars, inVars, plVars, rcVars, evVars>>

\* for (i = 0; i < nsets; ++i) { if (size == 1) continue; for (j = 0; ...
\* and, when the for ends, nsets += n (lines 931-933, 945)
SplitForI ==
    /\ pc = "for_i"
    /\ IF gi < nsets
       THEN IF Len(var_set[gi + 1]) = 1
            THEN /\ gi' = gi + 1
                 /\ UNCHANGED <<gj, pc, nsets>>
            ELSE /\ gj' = 0
                 /\ pc' = "for_j"
                 /\ UNCHANGED <<gi, nsets>>
       ELSE /\ nsets' = nsets + gn
            /\ pc' = "while"
            /\ UNCHANGED <<gi, gj>>
    /\ UNCHANGED <<var_set, gn, flag, ub>>
    /\ UNCHANGED <<psVars, inVars, plVars, rcVars, evVars>>

\* the write var_set[nsets + n++] = dup of line 941 lands in the array of
\* nvariants * 2 entries (line 917), or past it: then the behaviour is
\* undefined, and the build either goes on as if the entry had been
\* stored or the process dies
StoreOutcomes(idx, cap) == IF idx < cap THEN {"stored"} ELSE {"as_if_stored", "abort"}

\* for (j = 0; j < var_set[i]->size - 1; ++j) { ... } (lines 933-943)
SplitForJ ==
    /\ pc = "for_j"
    /\ LET set == var_set[gi + 1]
       IN  IF gj < Len(set) - 1
           THEN IF varlist[set[gj + 1]].pos = varlist[set[gj + 2]].pos
                THEN \E o \in StoreOutcomes(nsets + gn, nvariants * 2) :
                        /\ ub' = (ub \/ o # "stored")
                        /\ IF o = "abort"
                           THEN /\ pc' = "abort"
                                /\ UNCHANGED <<var_set, gn, gj, gi, flag>>
                           ELSE /\ flag' = TRUE
                                /\ var_set' = Append([var_set EXCEPT ![gi + 1] = vector_del(set, gj)],
                                                     vector_del(vector_dup(set), gj + 1))
                                /\ gn' = gn + 1
                                /\ gj' = gj + 1
                                /\ UNCHANGED <<pc, gi>>
                ELSE /\ gj' = gj + 1
                     /\ UNCHANGED <<var_set, gn, gi, flag, pc, ub>>
           ELSE /\ gi' = gi + 1
                /\ pc' = "for_i"
                /\ UNCHANGED <<var_set, gn, gj, flag, ub>>
    /\ UNCHANGED nsets
    /\ UNCHANGED <<psVars, inVars, plVars, rcVars, evVars>>

GrouperStart ==
    /\ var_set = <<>>
    /\ nsets = 0
    /\ gi = 0
    /\ gj = 0
    /\ gn = 0
    /\ flag = FALSE
    /\ pc = "group"
    /\ ub = FALSE

(***************************************************************************)
(* evaluate_variants() as the pool sees it (lines 650-660, 853-871): the   *)
(* reads of the region chr:pos1-1..posn-1 are fetched; without reads the   *)
(* result is NULL, else a block with one line per variant of the set.  A   *)
(* line is [chr, pos, v, set]: v, the index of the variant, stands for the *)
(* REF and ALT columns and set for the set descriptor; the numeric columns *)
(* are those of SpecEval.                                                  *)
(***************************************************************************)
fetch_reads(b, chr, beg, end) == {r \in b : r.chr = chr /\ beg <= r.pos /\ r.pos <= end}

print_variant(set, k) ==
    [chr |-> varlist[set[k]].chr, pos |-> varlist[set[k]].pos, v |-> set[k], set |-> set]

\* the block with the loop of line 853 stopped after the first variant
evaluate_first(set) ==
    LET first == varlist[set[1]]
        last == varlist[set[Len(set)]]
    IN  IF fetch_reads(bam, first.chr, first.pos - 1, last.pos - 1) = {}
        THEN NULLSTR
        ELSE <<print_variant(set, 1)>>

evaluate_block(set) ==
    LET first == varlist[set[1]]
        last == varlist[set[Len(set)]]
    IN  IF fetch_reads(bam, first.chr, first.pos - 1, last.pos - 1) = {}
        THEN NULLSTR
        ELSE [k \in 1..Len(set) |-> print_variant(set, k)]

(***************************************************************************)
(* process_variants(), lines 950-967: the queue gets one job per set, in   *)
(* the order of var_set, and numproc workers are started.                  *)
(***************************************************************************)
Workers == 1..numproc

Dispatch ==
    /\ pc = "dispatch"
    /\ queue' = [size |-> nsets, data |-> [k \in 1..nsets |-> k]]
    /\ results' = [size |-> 0, data |-> [k \in 1..nsets |-> NULLSTR]]
    /\ pops' = [k \in 1..nsets |-> 0]
    /\ wpc' = [w \in Workers |-> "lock_q"]
    /\ pc' = "join"
    /\ UNCHANGED <<var_set, nsets, gi, gj, gn, flag, ub>>
    /\ UNCHANGED <<q_lock, r_lock, warg, wtmp, wout, output>>
    /\ UNCHANGED <<psVars, inVars, rcVars, evVars>>

(***************************************************************************)
(* pool(), lines 885-906.  vector_pop() and vector_add() are split at the  *)
(* point where the size they have read is written back.                    *)
(***************************************************************************)
PoolFrame == UNCHANGED <<psVars, inVars, grVars, rcVars, evVars>>

\* pool() entering vector_pop() without waiting for q_lock
LockQNoWait(w) ==
    /\ wpc[w] = "lock_q"
    /\ q_lock' = w
    /\ wpc' = [wpc EXCEPT ![w] = "pop_load"]
    /\ UNCHANGED <<queue, results, r_lock, warg, wtmp, wout, output, pops>>
    /\ PoolFrame

\* pthread_mutex_lock(&w->q_lock)
LockQ(w) ==
    /\ wpc[w] = "lock_q"
    /\ q_lock = 0
    /\ q_lock' = w
    /\ wpc' = [wpc EXCEPT ![w] = "pop_load"]
    /\ UNCHANGED <<queue, results, r_lock, warg, wtmp, wout, output, pops>>
    /\ PoolFrame

\* vector_pop(): if (a->size <= 0) return NULL
PopLoad(w) ==
    /\ wpc[w] = "pop_load"
    /\ wtmp' = [wtmp EXCEPT ![w] = queue.size]
    /\ IF queue.size <= 0
       THEN /\ warg' = [warg EXCEPT ![w] = NULL]
            /\ wpc' = [wpc EXCEPT ![w] = "unlock_q"]
       ELSE /\ wpc' = [wpc EXCEPT ![w] = "pop_store"]
            /\ UNCHANGED warg
    /\ UNCHANGED <<queue, results, q_lock, r_lock, wout, output, pops>>
    /\ PoolFrame

\* vector_pop(): void *entry = a->data[--a->size]
PopStore(w) ==
    /\ wpc[w] = "pop_store"
    /\ queue' = [queue EXCEPT !.size = wtmp[w] - 1]
    /\ warg' = [warg EXCEPT ![w] = queue.data[wtmp[w]]]
    /\ pops' = IF queue.data[wtmp[w]] = NULL THEN pops
               ELSE [pops EXCEPT ![queue.data[wtmp[w]]] = @ + 1]
    /\ wpc' = [wpc EXCEPT ![w] = "unlock_q"]
    /\ UNCHANGED <<results, q_lock, r_lock, wtmp, wout, output>>
    /\ PoolFrame

\* vector_pop(): a->data[a->size] = NULL; return entry;
\* pthread_mutex_unlock(&w->q_lock); if (arg == NULL) break
\* (the size held by vector_pop is dead from here on)
UnlockQ(w) ==
    /\ wpc[w] = "unlock_q"
    /\ queue' = IF wtmp[w] <= 0 THEN queue
                ELSE [queue EXCEPT !.data[wtmp[w]] = NULL]
    /\ q_lock' = IF q_lock = w THEN 0 ELSE q_lock
    /\ wpc' = [wpc EXCEPT ![w] = IF warg[w] = NULL THEN "exit" ELSE "eval"]
    /\ wtmp' = [wtmp EXCEPT ![w] = 0]
    /\ UNCHANGED <<results, r_lock, warg, wout, output, pops>>
    /\ PoolFrame

\* pool() without the continue of line 897: a NULL outstr is added as well
EvaluateNoContinue(w) ==
    /\ wpc[w] = "eval"
    /\ wout' = [wout EXCEPT ![w] = evaluate_block(var_set[warg[w]])]
    /\ wpc' = [wpc EXCEPT ![w] = "lock_r"]
    /\ UNCHANGED <<queue, results, q_lock, r_lock, warg, wtmp, output, pops>>
    /\ PoolFrame

\* char *outstr = evaluate_variants(...); if (outstr == NULL) continue
Evaluate(w) ==
    /\ wpc[w] = "eval"
    /\ LET out == evaluate_block(var_set[warg[w]])
       IN  /\ wout' = [wout EXCEPT ![w] = out]
           /\ wpc' = [wpc EXCEPT ![w] = IF out = NULLSTR THEN "lock_q" ELSE "lock_r"]
    /\ UNCHANGED <<queue, results, q_lock, r_lock, warg, wtmp, output, pops>>
    /\ PoolFrame

\* pthread_mutex_lock(&w->r_lock)
LockR(w) ==
    /\ wpc[w] = "lock_r"
    /\ r_lock = 0
    /\ r_lock' = w
    /\ wpc' = [wpc EXCEPT ![w] = "add_load"]
    /\ UNCHANGED <<queue, results, q_lock, warg, wtmp, wout, output, pops>>
    /\ PoolFrame

\* vector_add(): if (a->size >= a->capacity) ...: the capacity nsets is never reached
AddLoad(w) ==
    /\ wpc[w] = "add_load"
    /\ wtmp' = [wtmp EXCEPT ![w] = results.size]
    /\ wpc' = [wpc EXCEPT ![w] = "add_store"]
    /\ UNCHANGED <<queue, results, q_lock, r_lock, warg, wout, output, pops>>
    /\ PoolFrame

\* vector_add(): a->data[a->size++] = entry; then arg is freed
AddStore(w) ==
    /\ wpc[w] = "add_store"
    /\ results' = [size |-> wtmp[w] + 1,
                   data |-> [results.data EXCEPT ![wtmp[w] + 1] = wout[w]]]
    /\ warg' = [warg EXCEPT ![w] = NULL]
    /\ wpc' = [wpc EXCEPT ![w] = "unlock_r"]
    /\ UNCHANGED <<queue, q_lock, r_lock, wtmp, wout, output, pops>>
    /\ PoolFrame

\* pthread_mutex_unlock(&w->r_lock), and round the while (1): outstr is dead
UnlockR(w) ==
    /\ wpc[w] = "unlock_r"
    /\ r_lock' = IF r_lock = w THEN 0 ELSE r_lock
    /\ wpc' = [wpc EXCEPT ![w] = "lock_q"]
    /\ wtmp' = [wtmp EXCEPT ![w] = 0]
    /\ wout' = [wout EXCEPT ![w] = NULLSTR]
    /\ UNCHANGED <<queue, results, q_lock, warg, output, pops>>
    /\ PoolFrame

(***************************************************************************)
(* process_variants(), lines 967-976: join, sort, write.                   *)
(***************************************************************************)
\* process_variants() going on to qsort() without joining the workers
JoinNoWait ==
    /\ pc = "join"
    /\ pc' = "sort"
    /\ UNCHANGED <<var_set, nsets, gi, gj, gn, flag, ub>>
    /\ UNCHANGED <<psVars, inVars, plVars, rcVars, evVars>>

\* for (i = 0; i < numproc; ++i) pthread_join(tid[i], NULL)
Join ==
    /\ pc = "join"
    /\ \A w \in Workers : wpc[w] = "exit"
    /\ pc' = "sort"
    /\ UNCHANGED <<var_set, nsets, gi, gj, gn, flag, ub>>
    /\ UNCHANGED <<psVars, inVars, plVars, rcVars, evVars>>

\* nat_sort_cmp() on two blocks (lines 212-254).  A block is the text
\* "chr<c>\t<pos>\t<ref>\t<alt>\t...[<set>]\n...": the letters agree, the
\* digits of the chromosome are compared as a number, the tabs are skipped and
\* the digits of pos are compared as a number.  Blocks that agree up to pos are
\* ordered by the text that follows: the REF and ALT text of variant v is taken
\* to sort as v does, the numeric columns are taken to agree, and the set
\* descriptors are compared entry by entry.
Cmp(x, y) == (IF x > y THEN 1 ELSE 0) - (IF x < y THEN 1 ELSE 0)

RECURSIVE CmpSet(_, _, _)
CmpSet(a, b, k) ==
    IF k > Len(a) \/ k > Len(b) THEN Cmp(Len(a), Len(b))
    ELSE IF a[k] # b[k] THEN Cmp(a[k], b[k])
    ELSE CmpSet(a, b, k + 1)

nat_sort_str(a, b) ==
    IF a[1].chr # b[1].chr THEN Cmp(a[1].chr, b[1].chr)
    ELSE IF a[1].pos # b[1].pos THEN Cmp(a[1].pos, b[1].pos)
    ELSE IF a[1].v # b[1].v THEN Cmp(a[1].v, b[1].v)
    ELSE CmpSet(a[1].set, b[1].set, 1)

\* qsort(): every order of the entries that the comparator accepts
RECURSIVE Sorted(_, _)
Sorted(data, idx) ==
    IF idx = {} THEN {<<>>}
    ELSE UNION {{<<data[m]>> \o rest : rest \in Sorted(data, idx \ {m})} :
                m \in {x \in idx : \A y \in idx : nat_sort_str(data[x], data[y]) <= 0}}

\* qsort(results->data, results->size, ..., nat_sort_str)
Sort ==
    /\ pc = "sort"
    /\ \E sorted \in Sorted(results.data, 1..results.size) :
          results' = [results EXCEPT !.data = sorted \o SubSeq(results.data, results.size + 1, Len(results.data))]
    /\ pc' = "write"
    /\ UNCHANGED <<var_set, nsets, gi, gj, gn, flag, ub>>
    /\ UNCHANGED <<queue, q_lock, r_lock, wpc, warg, wtmp, wout, output, pops>>
    /\ UNCHANGED <<psVars, inVars, rcVars, evVars>>

RECURSIVE Concat(_, _)
Concat(data, n) == IF n = 0 THEN <<>> ELSE Concat(data, n - 1) \o data[n]

\* fprintf(out_fh, "#SEQ\t..."); for (i = 0; i < results->size; ++i) fprintf(...)
Write ==
    /\ pc = "write"
    /\ output' = <<"#SEQ">> \o Concat(results.data, results.size)
    /\ pc' = "done"
    /\ UNCHANGED <<var_set, nsets, gi, gj, gn, flag, ub>>
    /\ UNCHANGED <<queue, results, q_lock, r_lock, wpc, warg, wtmp, wout, pops>>
    /\ UNCHANGED <<psVars, inVars, rcVars, evVars>>

PoolStart ==
    /\ queue = [size |-> 0, data |-> <<>>]
    /\ results = [size |-> 0, data |-> <<>>]
    /\ q_lock = 0
    /\ r_lock = 0
    /\ wpc = [w \in Workers |-> "idle"]
    /\ warg = [w \in Workers |-> NULL]
    /\ wtmp = [w \in Workers |-> 0]
    /\ wout = [w \in Workers |-> NULLSTR]
    /\ output = <<>>
    /\ pops = <<>>


(***************************************************************************)
(* fetch_refseq(), lines 517-551.  Contig names are 1..MaxContigs and the  *)
(* reference file holds each of them.  A Fasta is [name, id], id telling   *)
(* the malloc'ed objects apart.  refseq_hash maps each key present to its  *)
(* bucket, a vector of Fasta.  The callers are the workers, at lines 682   *)
(* and 777 of evaluate_variants(); each makes at most MaxFetch calls.      *)
(***************************************************************************)
Contigs == 1..MaxContigs

RcFrame == UNCHANGED <<psVars, inVars, grVars, plVars, evVars>>

\* evaluate_variants(): fetch_refseq(var_set[0]->chr, ...) or fetch_refseq(xa_chr, ...)
FetchCall(w) ==
    /\ fpc[w] = "idle"
    /\ fcalls[w] < MaxFetch
    /\ \E name \in Contigs : fname' = [fname EXCEPT ![w] = name]
    /\ fcalls' = [fcalls EXCEPT ![w] = @ + 1]
    /\ fpc' = [fpc EXCEPT ![w] = "lock"]
    /\ UNCHANGED <<refseq_hash, refseq_lock, ffasta, nfasta, returned>>
    /\ RcFrame

\* fetch_refseq() going on without waiting for refseq_lock
FetchLockNoWait(w) ==
    /\ fpc[w] = "lock"
    /\ refseq_lock' = w
    /\ fpc' = [fpc EXCEPT ![w] = "get"]
    /\ UNCHANGED <<refseq_hash, fname, ffasta, fcalls, nfasta, returned>>
    /\ RcFrame

\* pthread_mutex_lock(&refseq_lock), line 518
FetchLock(w) ==
    /\ fpc[w] = "lock"
    /\ refseq_lock = 0
    /\ refseq_lock' = w
    /\ fpc' = [fpc EXCEPT ![w] = "get"]
    /\ UNCHANGED <<refseq_hash, fname, ffasta, fcalls, nfasta, returned>>
    /\ RcFrame

\* kh_get() and the scan of the bucket, lines 520-531
FetchGet(w) ==
    /\ fpc[w] = "get"
    /\ IF fname[w] \in DOMAIN refseq_hash
       THEN LET node == refseq_hash[fname[w]]
                hits == {i \in 1..Len(node) : node[i].name = fname[w]}
            IN  IF hits # {}
                THEN /\ ffasta' = [ffasta EXCEPT ![w] = node[CHOOSE i \in hits : \A j \in hits : i <= j]]
                     /\ fpc' = [fpc EXCEPT ![w] = "found"]
                ELSE /\ fpc' = [fpc EXCEPT ![w] = "exit_err"]
                     /\ UNCHANGED ffasta
       ELSE /\ fpc' = [fpc EXCEPT ![w] = "load"]
            /\ UNCHANGED ffasta
    /\ UNCHANGED <<refseq_hash, refseq_lock, fname, fcalls, nfasta, returned>>
    /\ RcFrame

\* pthread_mutex_unlock(&refseq_lock); return f[i], lines 526-527
FetchFound(w) ==
    /\ fpc[w] = "found"
    /\ refseq_lock' = IF refseq_lock = w THEN 0 ELSE refseq_lock
    /\ returned' = returned \cup {[name |-> ffasta[w].name, id |-> ffasta[w].id, by |-> w]}
    /\ fpc' = [fpc EXCEPT ![w] = "idle"]
    /\ fname' = [fname EXCEPT ![w] = NULL]
    /\ ffasta' = [ffasta EXCEPT ![w] = NULL]
    /\ UNCHANGED <<refseq_hash, fcalls, nfasta>>
    /\ RcFrame

\* fai_load(), malloc(sizeof (Fasta)), strdup(), fai_fetch(), lines 533-541
FetchLoad(w) ==
    /\ fpc[w] = "load"
    /\ nfasta' = nfasta + 1
    /\ ffasta' = [ffasta EXCEPT ![w] = [name |-> fname[w], id |-> nfasta + 1]]
    /\ fpc' = [fpc EXCEPT ![w] = "put"]
    /\ UNCHANGED <<refseq_hash, refseq_lock, fname, fcalls, returned>>
    /\ RcFrame

\* kh_put(); if (absent) vector_init(node, ...); vector_add(node, f), lines 544-547
FetchPut(w) ==
    /\ fpc[w] = "put"
    /\ LET key == ffasta[w].name
           absent == key \notin DOMAIN refseq_hash
           node == IF absent THEN <<>> ELSE refseq_hash[key]
       IN  refseq_hash' = [n \in DOMAIN refseq_hash \cup {key} |->
                              IF n = key THEN Append(node, ffasta[w]) ELSE refseq_hash[n]]
    /\ fpc' = [fpc EXCEPT ![w] = "unlock"]
    /\ UNCHANGED <<refseq_lock, fname, ffasta, fcalls, nfasta, returned>>
    /\ RcFrame

\* pthread_mutex_unlock(&refseq_lock); return f, lines 549-550
FetchUnlock(w) ==
    /\ fpc[w] = "unlock"
    /\ refseq_lock' = IF refseq_lock = w THEN 0 ELSE refseq_lock
    /\ returned' = returned \cup {[name |-> ffasta[w].name, id |-> ffasta[w].id, by |-> w]}
    /\ fpc' = [fpc EXCEPT ![w] = "idle"]
    /\ fname' = [fname EXCEPT ![w] = NULL]
    /\ ffasta' = [ffasta EXCEPT ![w] = NULL]
    /\ UNCHANGED <<refseq_hash, fcalls, nfasta>>
    /\ RcFrame

\* main(): refseq_hash = kh_init(rsh); pthread_mutex_init(&refseq_lock, NULL)
RcStart ==
    /\ refseq_hash = <<>>
    /\ refseq_lock = 0
    /\ fpc = [w \in Workers |-> "idle"]
    /\ fname = [w \in Workers |-> NULL]
    /\ ffasta = [w \in Workers |-> NULL]
    /\ fcalls = [w \in Workers |-> 0]
    /\ nfasta = 0
    /\ returned = {}

(***************************************************************************)
(* evaluate_variants(), lines 644-872, on one hypothesis set.              *)
(*                                                                         *)
(* The set has n variants; variant i is at position i of chromosome 1.  A  *)
(* fetched read is [hap, flag, multimap, chr, pos]: hap is the set of the  *)
(* variants whose ALT allele the read shows, flag the set of the tokens of *)
(* its flag string and multimap the list of the entries [chr, pos] of its  *)
(* XA tag (empty: no tag).                                                 *)
(*                                                                         *)
(* Probabilities.  The code keeps natural logarithms; the model keeps the  *)
(* numbers themselves, scaled to integers, so that log_add_exp(a, b) is    *)
(* a + b, a sum of logarithms is a product and a comparison of logarithms  *)
(* is the comparison of the numbers.  calc_prob_distrib() is the weight    *)
(* of the read on a sequence: a factor 4 for every variant site at which   *)
(* the read and the sequence agree and 1 for every other site, and 1 for a *)
(* read placed away from its own alignment.  The elsewhere term of line    *)
(* 751, with its prior OMEGA / (1 - OMEGA) of lines 810-811, weighs 1.     *)
(* hetbias is counted in halves (0, 1 for the default 0.5, 2), a read      *)
(* probability is carried 10-fold (LG50, LG10, LG90 are 5, 1 and 9) and a  *)
(* prior 4 * pd-fold, pd being the divisor of lines 688-695; so each read  *)
(* contributes the factor 40 * pd to ref, alt[] and het[], and the         *)
(* logarithm 0 is the number LogZero = (40 * pd)^(reads evaluated).        *)
(***************************************************************************)
DefaultMaxh == 1024

\* the variants of the set under evaluation
EvalSet(n) == [i \in 1..n |-> [chr |-> 1, pos |-> i]]

XaEntries == {[chr |-> 1, pos |-> 1], [chr |-> 2, pos |-> 1]}

RECURSIVE ListsUpTo(_, _)
ListsUpTo(S, len) ==
    IF len = 0 THEN {<<>>}
    ELSE LET shorter == ListsUpTo(S, len - 1)
         IN  shorter \cup {Append(l, x) : l \in {y \in shorter : Len(y) = len - 1}, x \in S}

FlagStrings == <<{}, {"UNMAP"}, {"SECONDARY"}, {"SUPPLEMENTARY"}>>

RECURSIVE SetToSeq(_)
SetToSeq(S) ==
    IF S = {} THEN <<>>
    ELSE LET x == CHOOSE y \in S : TRUE IN <<x>> \o SetToSeq(S \ {x})

XaTags == SetToSeq(ListsUpTo(XaEntries, MaxXA))

\* the reads fetch_reads() can return for the region of the set (lines
\* 469-506), numbered 1..NReadKinds(n)
NReadKinds(n) == Pow(2, n) * Len(FlagStrings) * Len(XaTags)

ReadKind(n, code) ==
    LET h == (code - 1) % Pow(2, n)
        f == ((code - 1) \div Pow(2, n)) % Len(FlagStrings)
        x == (code - 1) \div (Pow(2, n) * Len(FlagStrings))
    IN  [hap |-> {i \in 1..n : (h \div Pow(2, i - 1)) % 2 = 1},
         flag |-> FlagStrings[f + 1],
         multimap |-> XaTags[x + 1],
         chr |-> 1, pos |-> 0]

\* the lists over 1..K of at most len entries, in non-descending order
RECURSIVE AscLists(_, _)
AscLists(K, len) ==
    IF len = 0 THEN {<<>>}
    ELSE LET shorter == AscLists(K, len - 1)
             ext(l) == {Append(l, x) : x \in (IF l = <<>> THEN 1 ELSE l[Len(l)])..K}
         IN  shorter \cup UNION {ext(l) : l \in {y \in shorter : Len(y) = len - 1}}

\* the read vectors of at most m reads, one for every multiset of reads
ReadVectors(n, m) ==
    {[k \in 1..Len(l) |-> ReadKind(n, l[k])] : l \in AscLists(NReadKinds(n), m)}

\* lines 672-677: the combination string parsed at its tabs; the character
\* code - '\t' - 1 is the C index of a variant of the set
RECURSIVE ParseCombos(_, _, _, _, _)
ParseCombos(combo, at, token, var_combo, ncombos) ==
    IF at > Len(combo) \/ Len(var_combo) >= ncombos THEN var_combo
    ELSE IF combo[at] = TAB
         THEN IF token = <<>> THEN var_combo
              ELSE ParseCombos(combo, at + 1, <<>>, Append(var_combo, token), ncombos)
         ELSE ParseCombos(combo, at + 1, Append(token, combo[at] - TAB - 1 + 1), var_combo, ncombos)

\* lines 665-677 for the sets of 1..MaxSetN variants: [ncombos, var_combo]
Combos ==
    [n \in 1..MaxSetN |->
        LET p == powerset(n, DefaultMaxh)
        IN  [ncombos |-> p.ncombos,
             var_combo |-> ParseCombos(p.combo, 1, <<>>, <<>>, p.ncombos)]]

\* lines 718-725
is_unmap(r) == "UNMAP" \in r.flag

is_secondary(r) == "SECONDARY" \in r.flag \/ "SUPPLEMENTARY" \in r.flag

Evaluated(r, pao) == ~is_unmap(r) /\ ~(pao /\ is_secondary(r))

\* calc_prob_distrib() of read r placed at chr:pos on the sequence of chr with
\* the variants of combination c applied (construct_altseq; c = <<>> is the
\* reference)
RECURSIVE SiteWeight(_, _, _, _)
SiteWeight(r, c, i, n) ==
    IF i > n THEN 1
    ELSE (IF (i \in r.hap) = (\E k \in 1..Len(c) : c[k] = i) THEN 4 ELSE 1)
         * SiteWeight(r, c, i + 1, n)

calc_prob_distrib(r, chr, pos, c, n) ==
    IF chr = r.chr /\ pos = r.pos THEN SiteWeight(r, c, 1, n) ELSE 1

\* line 751
elsewhere(r) == 1

\* the XA loop of lines 771-807 runs for this read
HasXA(r, pao) == ~pao /\ r.multimap # <<>>

\* pout[readi]: line 752 and, for every XA entry, line 797
pout(r, pao) == elsewhere(r) + (IF HasXA(r, pao) THEN Len(r.multimap) * elsewhere(r) ELSE 0)

\* readprobability of line 795 for XA entry xa: the read on the reference at xa
XaRefProb(r, xa, n) == calc_prob_distrib(r, xa.chr, Abs(xa.pos) - 1, <<>>, n)

\* line 802: the distance under which an XA entry counts as near the variant
XaWindow == 50

\* lines 801-802: strcmp(xa_chr, read->chr) == 0 and
\* abs(xa_pos - var_combo[seti]->data[0]->pos) < 50, xa_pos being 0-based
XaNear(r, xa, c, set) ==
    xa.chr = r.chr /\ Abs((Abs(xa.pos) - 1) - set[c[1]].pos) < XaWindow

\* readprobability of lines 801-803 for XA entry xa and combination c of set
XaAltProb(r, xa, c, set, n) ==
    IF XaNear(r, xa, c, set)
    THEN calc_prob_distrib(r, r.chr, Abs(xa.pos) - 1, c, n)
    ELSE XaRefProb(r, xa, n)

RECURSIVE SumXaRef(_, _, _)
SumXaRef(r, k, n) ==
    IF k = 0 THEN 0 ELSE SumXaRef(r, k - 1, n) + XaRefProb(r, r.multimap[k], n)

RECURSIVE SumXaAlt(_, _, _, _, _)
SumXaAlt(r, k, c, set, n) ==
    IF k = 0 THEN 0 ELSE SumXaAlt(r, k - 1, c, set, n) + XaAltProb(r, r.multimap[k], c, set, n)

\* prgu[readi]: lines 754, 798 and 810; not computed (0) for a skipped read
prgu(r, pao, n) ==
    IF ~Evaluated(r, pao) THEN 0
    ELSE calc_prob_distrib(r, r.chr, r.pos, <<>>, n)
         + (IF HasXA(r, pao) THEN SumXaRef(r, Len(r.multimap), n) ELSE 0)
         + pout(r, pao)

\* prgv: lines 757, 804 and 811; not computed (0) for a skipped read
prgv(r, c, set, pao, n) ==
    IF ~Evaluated(r, pao) THEN 0
    ELSE calc_prob_distrib(r, r.chr, r.pos, c, n)
         + (IF HasXA(r, pao) THEN SumXaAlt(r, Len(r.multimap), c, set, n) ELSE 0)
         + pout(r, pao)

\* phet, 10-fold: lines 814-818
phet(v, u) == Max(5 * v + 5 * u, Max(1 * v + 9 * u, 9 * v + 1 * u))

\* a - b > 0.69 for the logarithms a, b of x, y: x / y > e^0.69 = 1.99372
MoreBy069(x, y) == x * 100000 > y * 199372

\* lines 821-822
CountsAlt(v, u) == v > u /\ MoreBy069(v, u)

CountsRef(v, u) == u > v /\ MoreBy069(u, v)

\* the divisor of the priors, lines 688-695
PriorDiv(n, mvh, ncombos) == IF n = 1 \/ mvh THEN 1 ELSE ncombos

\* ref: line 825 over the evaluated reads; REFPRIOR is 0.5.  u[k] is prgu
\* of read k and evaluated the set of the reads not skipped
RECURSIVE RefLik(_, _, _, _)
RefLik(u, evaluated, k, pd) ==
    IF k = 0 THEN 1
    ELSE RefLik(u, evaluated, k - 1, pd) * (IF k \in evaluated THEN 10 * u[k] * 2 * pd ELSE 1)

\* alt[seti]: line 826; alt_prior is 0.5 * (1 - hetbias) / pd.  v[k] is prgv
\* of read k for the combination seti
RECURSIVE AltLik(_, _, _, _)
AltLik(v, evaluated, k, hetbias) ==
    IF k = 0 THEN 1
    ELSE AltLik(v, evaluated, k - 1, hetbias)
         * (IF k \in evaluated THEN 10 * v[k] * (2 - hetbias) ELSE 1)

\* het[seti]: line 827; het_prior is 0.5 * hetbias / pd
RECURSIVE HetLik(_, _, _, _, _)
HetLik(v, u, evaluated, k, hetbias) ==
    IF k = 0 THEN 1
    ELSE HetLik(v, u, evaluated, k - 1, hetbias)
         * (IF k \in evaluated THEN phet(v[k], u[k]) * hetbias ELSE 1)

\* the logarithm 0 in the scale of ref, alt[] and het[]
LogZero(evaluated, pd) == Pow(40 * pd, Cardinality(evaluated))

\* alt_count[seti] and ref_count[seti], lines 821-822
AltCount(v, u, evaluated) == Cardinality({k \in evaluated : CountsAlt(v[k], u[k])})

RefCount(v, u, evaluated) == Cardinality({k \in evaluated : CountsRef(v[k], u[k])})

\* lines 842-848: the largest entry of a count array, 0 at least
RECURSIVE MaxCount(_, _)
MaxCount(count, k) ==
    IF k = 0 THEN 0 ELSE Max(MaxCount(count, k - 1), count[k])

\* read_count with max_alt_count left out
read_count_ref(ref_count, alt_count) == MaxCount(ref_count, Len(ref_count))

\* line 849
read_count(ref_count, alt_count) ==
    MaxCount(ref_count, Len(ref_count)) + MaxCount(alt_count, Len(alt_count))

\* lines 841-845: total = log_add_exp(ref, log_add_exp(alt[seti], het[seti]))
\* is assigned anew for every seti, so the last assignment is what remains
Total(ref, term, ncombos) == IF ncombos = 0 THEN ref ELSE ref + term[ncombos]

\* find_variant(a, v), lines 598-610: binary search by position; a is a
\* combination, v a variant of set; the C index found, or -1
RECURSIVE FindLoop(_, _, _, _, _)
FindLoop(a, v, set, i, j) ==
    LET m == (i + j) \div 2
    IN  IF i > j THEN -1
        ELSE IF a[m + 1] = v THEN m
        ELSE IF set[v].pos > set[a[m + 1]].pos THEN FindLoop(a, v, set, m + 1, j)
        ELSE FindLoop(a, v, set, i, m - 1)

\* a search that looks at the first entry of the combination only
find_variant_first(a, v, set) == IF Len(a) > 0 /\ a[1] = v THEN 0 ELSE -1

find_variant(a, v, set) == FindLoop(a, v, set, 0, Len(a) - 1)

\* lines 854-865 for variant v: [has_alt, not_alt, has_alt_count] after the
\* combinations 1..k
RECURSIVE Marginal(_, _, _, _, _, _, _, _)
Marginal(v, set, var_combo, term, alt_count, ref, zero, k) ==
    IF k = 0 THEN [has_alt |-> zero, not_alt |-> ref, has_alt_count |-> 0]
    ELSE LET m == Marginal(v, set, var_combo, term, alt_count, ref, zero, k - 1)
         IN  IF find_variant(var_combo[k], v, set) # -1
             THEN [m EXCEPT !.has_alt = IF m.has_alt = zero THEN term[k] ELSE m.has_alt + term[k],
                            !.has_alt_count = Max(m.has_alt_count, alt_count[k])]
             ELSE [m EXCEPT !.not_alt = m.not_alt + term[k]]

\* lines 853-867: the block, one line for every variant of the set.  A line
\* holds read_count, has_alt_count and the numbers has_alt, total and
\* not_alt: prob is the logarithm of has_alt / total and odds that of
\* has_alt / not_alt (lines 618-619).
Block(n, set, var_combo, ncombos, term, alt_count, ref, zero, total, count) ==
    [i \in 1..n |->
        LET m == Marginal(i, set, var_combo, term, alt_count, ref, zero, ncombos)
        IN  [v |-> i,
             read_count |-> count,
             has_alt_count |-> m.has_alt_count,
             has_alt |-> m.has_alt,
             total |-> total,
             not_alt |-> m.not_alt]]

\* lines 840-867, from ref, alt[] + het[] and the count arrays
Marginals(n, set, var_combo, ncombos, ref, term, ref_count, alt_count, zero) ==
    Block(n, set, var_combo, ncombos, term, alt_count, ref, zero,
          Total(ref, term, ncombos), read_count(ref_count, alt_count))

\* lines 697-838, from prgu[] (u) and, for every combination, prgv (v)
Likelihoods(n, set, var_combo, ncombos, nreads, evaluated, pd, hetbias, u, v) ==
    Marginals(n, set, var_combo, ncombos,
              RefLik(u, evaluated, nreads, pd),
              [seti \in 1..ncombos |->
                  AltLik(v[seti], evaluated, nreads, hetbias)
                  + HetLik(v[seti], u, evaluated, nreads, hetbias)],
              [seti \in 1..ncombos |-> RefCount(v[seti], u, evaluated)],
              [seti \in 1..ncombos |-> AltCount(v[seti], u, evaluated)],
              LogZero(evaluated, pd))

\* evaluate_variants(): NULL without reads (lines 655-660), else the block
evaluate_variants(n, reads, pao, mvh, hetbias) ==
    IF Len(reads) = 0 THEN NULLSTR
    ELSE Likelihoods(n, EvalSet(n), Combos[n].var_combo, Combos[n].ncombos, Len(reads),
                     {k \in 1..Len(reads) : Evaluated(reads[k], pao)},
                     PriorDiv(n, mvh, Combos[n].ncombos), hetbias,
                     [k \in 1..Len(reads) |-> prgu(reads[k], pao, n)],
                     [seti \in 1..Combos[n].ncombos |->
                         [k \in 1..Len(reads) |->
                             prgv(reads[k], Combos[n].var_combo[seti], EvalSet(n), pao, n)]])

(***************************************************************************)
(* evaluate_variants() step by step: ev is [pc, n, reads, pao, mvh,        *)
(* hetbias, u, v, ref, term, ref_count, alt_count, out], the intermediate  *)
(* arrays being empty until their step has run.                            *)
(***************************************************************************)
EvFrame == UNCHANGED <<psVars, inVars, grVars, plVars, rcVars>>

\* lines 650-695: the reads are fetched; without reads NULL is returned,
\* else the combinations and the priors are set up
EvalCall ==
    /\ ev.pc = "call"
    /\ ev' = IF Len(ev.reads) = 0
             THEN [ev EXCEPT !.pc = "return", !.out = NULLSTR]
             ELSE [ev EXCEPT !.pc = "reads"]
    /\ EvFrame

\* lines 712-811 for every combination and read: prgu[readi] and prgv
EvalReads ==
    /\ ev.pc = "reads"
    /\ ev' = [ev EXCEPT
                !.pc = "sums",
                !.u = [k \in 1..Len(ev.reads) |-> prgu(ev.reads[k], ev.pao, ev.n)],
                !.v = [seti \in 1..Combos[ev.n].ncombos |->
                         [k \in 1..Len(ev.reads) |->
                             prgv(ev.reads[k], Combos[ev.n].var_combo[seti], EvalSet(ev.n),
                                  ev.pao, ev.n)]]]
    /\ EvFrame

\* lines 813-827 for every combination and read: the counts, ref, alt[], het[]
EvalSums ==
    /\ ev.pc = "sums"
    /\ LET nreads == Len(ev.reads)
           ncombos == Combos[ev.n].ncombos
           evaluated == {k \in 1..nreads : Evaluated(ev.reads[k], ev.pao)}
           pd == PriorDiv(ev.n, ev.mvh, ncombos)
       IN  ev' = [ev EXCEPT
                    !.pc = "marginal",
                    !.ref = RefLik(ev.u, evaluated, nreads, pd),
                    !.term = [seti \in 1..ncombos |->
                                AltLik(ev.v[seti], evaluated, nreads, ev.hetbias)
                                + HetLik(ev.v[seti], ev.u, evaluated, nreads, ev.hetbias)],
                    !.ref_count = [seti \in 1..ncombos |-> RefCount(ev.v[seti], ev.u, evaluated)],
                    !.alt_count = [seti \in 1..ncombos |-> AltCount(ev.v[seti], ev.u, evaluated)]]
    /\ EvFrame

\* lines 840-871: the marginals and the block
EvalMarginal ==
    /\ ev.pc = "marginal"
    /\ LET evaluated == {k \in 1..Len(ev.reads) : Evaluated(ev.reads[k], ev.pao)}
           pd == PriorDiv(ev.n, ev.mvh, Combos[ev.n].ncombos)
       IN  ev' = [ev EXCEPT
                    !.pc = "return",
                    !.out = Marginals(ev.n, EvalSet(ev.n), Combos[ev.n].var_combo,
                                      Combos[ev.n].ncombos, ev.ref, ev.term, ev.ref_count,
                                      ev.alt_count, LogZero(evaluated, pd))]
    /\ EvFrame

(***************************************************************************)
(* evaluate_variants(), lines 664-695 alone, for every maxh: ev is [pc, n, *)
(* mvh, maxh, combo, ncombos, var_combo, pd], pd being the divisor of the  *)
(* priors (0 until it is set).                                             *)
(***************************************************************************)
\* lines 665-666: int ncombos = 0; char *combo = powerset(nvariants, &ncombos)
EnumPowerset ==
    /\ ev.pc = "powerset"
    /\ LET p == powerset(ev.n, ev.maxh)
       IN  ev' = [ev EXCEPT !.pc = "parse", !.combo = p.combo, !.ncombos = p.ncombos]
    /\ EvFrame

\* lines 668-678: the string is parsed into var_combo and freed
EnumParse ==
    /\ ev.pc = "parse"
    /\ ev' = [ev EXCEPT !.pc = "priors",
                        !.var_combo = ParseCombos(ev.combo, 1, <<>>, <<>>, ev.ncombos),
                        !.combo = <<>>]
    /\ EvFrame

\* lines 688-695: the priors
EnumPriors ==
    /\ ev.pc = "priors"
    /\ ev' = [ev EXCEPT !.pc = "enumerated", !.pd = PriorDiv(ev.n, ev.mvh, ev.ncombos)]
    /\ EvFrame

(***************************************************************************)
(* construct_altseq(refseq, refseq_length, var_combo, altseq_length),      *)
(* lines 553-596.  A string is the sequence of its characters, C index k   *)
(* being position k + 1; a variant is [pos, ref, alt].  ev is [pc, refseq, *)
(* var_combo, i, offset, altseq, altseq_length].                           *)
(***************************************************************************)
\* lines 562-574: the "-" representations stand for the empty string
var_ref(curr) == IF curr.ref[1] = "-" THEN <<>> ELSE curr.ref

var_alt(curr) == IF curr.ref[1] = "-" THEN curr.alt
                 ELSE IF curr.alt[1] = "-" THEN <<>> ELSE curr.alt

\* the position with the ++pos of line 563 left out
VariantPosNoInc(curr, offset) == curr.pos - 1 + offset

\* lines 560-563: size_t pos = curr->pos - 1 + offset; ++pos after a "-" ref
VariantPos(curr, offset) ==
    curr.pos - 1 + offset + (IF curr.ref[1] = "-" THEN 1 ELSE 0)

\* the loop of line 580 writing one character further on
SubstituteShifted(altseq, pos, alt) ==
    [k \in 1..Len(altseq) |->
        IF k - 1 >= pos + 1 /\ k - 1 < pos + 1 + Len(alt) THEN alt[k - 1 - pos] ELSE altseq[k]]

\* line 580: for (j = 0; j < var_alt_length; ++j) altseq[j+pos] = var_alt[j]
Substitute(altseq, pos, alt) ==
    [k \in 1..Len(altseq) |->
        IF k - 1 >= pos /\ k - 1 < pos + Len(alt) THEN alt[k - pos] ELSE altseq[k]]

\* lines 583-590: the three memcpy() into newalt
Splice(altseq, pos, alt, var_ref_length) ==
    SubSeq(altseq, 1, pos) \o alt \o SubSeq(altseq, pos + var_ref_length + 1, Len(altseq))

\* lines 555-557: offset = 0; altseq = strdup(refseq); *altseq_length = refseq_length
AltseqCall ==
    /\ ev.pc = "altseq_call"
    /\ ev' = [ev EXCEPT !.pc = "altseq_loop", !.i = 0, !.offset = 0,
                        !.altseq = ev.refseq, !.altseq_length = Len(ev.refseq)]
    /\ EvFrame

\* one iteration of the loop of line 558
AltseqApply ==
    /\ ev.pc = "altseq_loop"
    /\ ev.i < Len(ev.var_combo)
    /\ LET curr == ev.var_combo[ev.i + 1]
           pos == VariantPos(curr, ev.offset)
           delta == Len(var_alt(curr)) - Len(var_ref(curr))
       IN  ev' = [ev EXCEPT
                    !.i = ev.i + 1,
                    !.offset = ev.offset + delta,
                    !.altseq = IF delta = 0 THEN Substitute(ev.altseq, pos, var_alt(curr))
                               ELSE Splice(ev.altseq, pos, var_alt(curr), Len(var_ref(curr))),
                    !.altseq_length = IF delta = 0 THEN ev.altseq_length
                                      ELSE ev.altseq_length + delta]
    /\ EvFrame

\* line 595: return altseq
AltseqReturn ==
    /\ ev.pc = "altseq_loop"
    /\ ev.i >= Len(ev.var_combo)
    /\ ev' = [ev EXCEPT !.pc = "altseq_return"]
    /\ EvFrame

(***************************************************************************)
(* The mapping tables (lines 55-56, 1064-1077) and the read probability    *)
(* matrix (lines 106-127, 728-736, 783-788).  A character is its code and  *)
(* a table is a function on 0..25, the index being the code minus 'A'.     *)
(* Logarithms are kept in thousandths.                                     *)
(***************************************************************************)
Code(ch) ==
    CASE ch = "A" -> 65 [] ch = "C" -> 67 [] ch = "G" -> 71 [] ch = "M" -> 77
      [] ch = "N" -> 78 [] ch = "R" -> 82 [] ch = "T" -> 84

\* memset(table, byte, sizeof table): every byte of every int gets the value
MemsetInt(byte) == byte + byte * 256 + byte * 65536 + byte * 16777216

\* lines 1065-1070
seqnt_map ==
    [i \in 0..25 |->
        CASE i = Code("A") - Code("A") -> 0
          [] i = Code("T") - Code("A") -> 1
          [] i = Code("G") - Code("A") -> 2
          [] i = Code("C") - Code("A") -> 3
          [] i = Code("N") - Code("A") -> 4
          [] OTHER -> MemsetInt(4)]

\* the table with the entry of line 1076 left out
compl_map_noG ==
    [i \in 0..25 |->
        CASE i = Code("A") - Code("A") -> Code("T")
          [] i = Code("T") - Code("A") -> Code("A")
          [] i = Code("C") - Code("A") -> Code("G")
          [] i = Code("N") - Code("A") -> Code("N")
          [] OTHER -> MemsetInt(0)]

\* lines 1072-1077
compl_map ==
    [i \in 0..25 |->
        CASE i = Code("A") - Code("A") -> Code("T")
          [] i = Code("T") - Code("A") -> Code("A")
          [] i = Code("C") - Code("A") -> Code("G")
          [] i = Code("G") - Code("A") -> Code("C")
          [] i = Code("N") - Code("A") -> Code("N")
          [] OTHER -> MemsetInt(0)]

\* reverse(a, size), lines 106-111: b[i++] = a[size] for size - 1 down to 0
reverse(a) == [i \in 1..Len(a) |-> a[Len(a) + 1 - i]]

\* the characters of a string are all indices of the tables
InTable(seq) == \A b \in 1..Len(seq) : seq[b] - Code("A") \in 0..25

\* reverse_compl(a, size), lines 113-119, for a string within the tables
reverse_compl(a) == [i \in 1..Len(a) |-> compl_map[a[Len(a) + 1 - i] - Code("A")]]

\* lines 731-733 for the quality q (log10 of the error: -1, -2, ...):
\* is_match = log(1 - err) and no_match = log(err / 3), in thousandths
IsMatch(q) == CASE q = -1 -> -105 [] q = -2 -> -10 [] q = -3 -> -1 [] OTHER -> 0

NoMatch(q) == q * 2303 - 1099

\* the column of the matrix for base b: seqnt_map[seq[b] - 'A'] (lines 125, 136)
Column(seq, b) == seqnt_map[seq[b] - Code("A")]

\* set_prob_matrix(), lines 121-127: matrix[5 * b + i], when every column
\* is one of the 5 of the row
set_prob_matrix(seq, is_match, no_match) ==
    [k \in 0..(5 * Len(seq) - 1) |->
        IF k % 5 = Column(seq, (k \div 5) + 1) THEN is_match[(k \div 5) + 1]
        ELSE no_match[(k \div 5) + 1]]

\* set_prob_matrix() in general.  A character outside the tables, or a
\* column outside 0..4, makes line 125 read or write outside its array:
\* the behaviour is undefined, and the build either dies or goes on with a
\* matrix whose rows hold what the in-range stores have left in them
MatrixOutcomes(seq, is_match, no_match) ==
    IF InTable(seq) /\ \A b \in 1..Len(seq) : Column(seq, b) \in 0..4
    THEN {[ub |-> FALSE, abort |-> FALSE, matrix |-> set_prob_matrix(seq, is_match, no_match)]}
    ELSE {[ub |-> TRUE, abort |-> TRUE, matrix |-> <<>>],
          [ub |-> TRUE, abort |-> FALSE,
           matrix |-> [k \in 0..(5 * Len(seq) - 1) |->
                         IF /\ seq[(k \div 5) + 1] - Code("A") \in 0..25
                            /\ k % 5 = Column(seq, (k \div 5) + 1)
                         THEN is_match[(k \div 5) + 1]
                         ELSE no_match[(k \div 5) + 1]]]}

\* a string after reverse_compl(): outside the tables the read of compl_map
\* is undefined
ReverseComplOutcomes(a) ==
    IF InTable(a) THEN {[ub |-> FALSE, seq |-> reverse_compl(a)]}
    ELSE {[ub |-> TRUE, seq |-> [i \in 1..Len(a) |->
                                  IF a[Len(a) + 1 - i] - Code("A") \in 0..25
                                  THEN compl_map[a[Len(a) + 1 - i] - Code("A")]
                                  ELSE MemsetInt(0)]]}

\* ev is [pc, qseq, qual, is_match, no_match, readprobmatrix, seq, rev_is_match,
\* rev_no_match, newreadprobmatrix, nrev, ub]
\* lines 728-736: is_match[], no_match[] and the matrix of the read
MatrixSet ==
    /\ ev.pc = "matrix"
    /\ LET is_match == [i \in 1..Len(ev.qseq) |-> IsMatch(ev.qual[i])]
           no_match == [i \in 1..Len(ev.qseq) |-> NoMatch(ev.qual[i])]
       IN  \E o \in MatrixOutcomes(ev.qseq, is_match, no_match) :
              ev' = [ev EXCEPT !.pc = IF o.abort THEN "abort" ELSE "reverse",
                               !.is_match = is_match, !.no_match = no_match,
                               !.seq = ev.qseq, !.rev_is_match = is_match,
                               !.rev_no_match = no_match,
                               !.readprobmatrix = o.matrix,
                               !.ub = o.ub]
    /\ EvFrame

\* lines 784-788, applied to what the last application returned: rev_qseq,
\* rev_is_match, rev_no_match and the matrix built from them
MatrixReverse ==
    /\ ev.pc = "reverse"
    /\ ev.nrev < 2
    /\ \E r \in ReverseComplOutcomes(ev.seq) :
          \E o \in MatrixOutcomes(r.seq, reverse(ev.rev_is_match), reverse(ev.rev_no_match)) :
             ev' = [ev EXCEPT !.pc = IF o.abort THEN "abort" ELSE "reverse",
                              !.seq = r.seq,
                              !.rev_is_match = reverse(ev.rev_is_match),
                              !.rev_no_match = reverse(ev.rev_no_match),
                              !.newreadprobmatrix = o.matrix,
                              !.nrev = ev.nrev + 1,
                              !.ub = ev.ub \/ r.ub \/ o.ub]
    /\ EvFrame

(***************************************************************************)
(* evaluate_variants(), lines 794-804, for one XA entry of one read, over  *)
(* the combinations of the set: which sequence readprobability is          *)
(* computed on.  ev is [pc, n, set, read, xa, seti, readprobability]; the  *)
(* probability is kept as the call that computes it.                       *)
(***************************************************************************)
\* lines 794-803 for the combination seti
XaStep ==
    /\ ev.pc = "xa"
    /\ ev.seti < Combos[ev.n].ncombos
    /\ LET c == Combos[ev.n].var_combo[ev.seti + 1]
           xa_pos == Abs(ev.xa.pos) - 1
           readprobability ==
               IF XaNear(ev.read, ev.xa, c, ev.set)
               THEN [seq |-> "altseq", chr |-> ev.read.chr, pos |-> xa_pos]
               ELSE [seq |-> "xa_refseq", chr |-> ev.xa.chr, pos |-> xa_pos]
       IN  ev' = [ev EXCEPT !.seti = ev.seti + 1,
                           !.readprobability = Append(ev.readprobability, readprobability)]
    /\ EvFrame

\* the loop of line 701 has been through every combination
XaDone ==
    /\ ev.pc = "xa"
    /\ ev.seti >= Combos[ev.n].ncombos
    /\ ev' = [ev EXCEPT !.pc = "xa_done"]
    /\ EvFrame

(***************************************************************************)
(* Idle values of the parts a specification does not run.                  *)
(***************************************************************************)
PsIdle == ps = PowersetStart(1, 0)

InputIdle ==
    /\ varlist = <<>>
    /\ distlim = 0
    /\ numproc = 1
    /\ bam = {}

RcIdle ==
    /\ refseq_hash = <<>>
    /\ refseq_lock = 0
    /\ fpc = <<>>
    /\ fname = <<>>
    /\ ffasta = <<>>
    /\ fcalls = <<>>
    /\ nfasta = 0
    /\ returned = {}

EvIdle == ev = [pc |-> "idle"]

(***************************************************************************)
(* SpecPowerset: powerset() on every n in 1..MaxN and maxh in 0..MaxMaxh.  *)
(***************************************************************************)
PsInit ==
    /\ ps \in {PowersetStart(n, maxh) : n \in 1..MaxN, maxh \in 0..MaxMaxh}
    /\ InputIdle
    /\ GrouperStart
    /\ PoolStart
    /\ RcIdle
    /\ EvIdle

PsCall ==
    /\ ps.pc \notin {"return", "abort"}
    /\ LET s == PowersetStep(ps)
       IN  \E o \in CombOutcomes(s.oob) :
              ps' = IF o = "abort" THEN [s EXCEPT !.pc = "abort"] ELSE s
    /\ UNCHANGED <<inVars, grVars, plVars, rcVars, evVars>>

PsNext == PsCall

SpecPowerset == PsInit /\ [][PsNext]_vars

(***************************************************************************)
(* SpecGrouper: the grouping and splitting loops on every sorted list of   *)
(* at most MaxVariants variants on MaxChr chromosomes.                     *)
(***************************************************************************)
GrInit ==
    /\ PsIdle
    /\ varlist \in SortedLists(Variants(MaxChr, MaxPos), MaxVariants)
    /\ distlim \in 0..MaxDistlim
    /\ numproc = 1
    /\ bam = {}
    /\ GrouperStart
    /\ PoolStart
    /\ RcIdle
    /\ EvIdle

GrNext == GroupSet \/ GroupEnd \/ SplitWhile \/ SplitForI \/ SplitForJ

SpecGrouper == GrInit /\ [][GrNext]_vars

SpecGrouperFair == SpecGrouper /\ WF_vars(GrNext)

(***************************************************************************)
(* Spec: process_variants() from the sorted list to the written output,    *)
(* on every list of at most PipeVariants variants of one chromosome, every *)
(* set of reads on it and 1..PipeProc workers.                             *)
(***************************************************************************)
Reads(nchr, npos) == [chr : 1..nchr, pos : 0..(npos - 1)]

Init ==
    /\ PsIdle
    /\ varlist \in SortedLists(Variants(1, MaxPos), PipeVariants)
    /\ distlim \in 0..MaxDistlim
    /\ numproc \in 1..PipeProc
    /\ bam \in SUBSET Reads(1, MaxPos)
    /\ GrouperStart
    /\ PoolStart
    /\ RcIdle
    /\ EvIdle

Next ==
    \/ GroupSet \/ GroupEnd \/ SplitWhile \/ SplitForI \/ SplitForJ
    \/ Dispatch
    \/ \E w \in Workers : LockQ(w)
    \/ \E w \in Workers : PopLoad(w)
    \/ \E w \in Workers : PopStore(w)
    \/ \E w \in Workers : UnlockQ(w)
    \/ \E w \in Workers : Evaluate(w)
    \/ \E w \in Workers : LockR(w)
    \/ \E w \in Workers : AddLoad(w)
    \/ \E w \in Workers : AddStore(w)
    \/ \E w \in Workers : UnlockR(w)
    \/ Join
    \/ Sort
    \/ Write

Spec == Init /\ [][Next]_vars

(***************************************************************************)
(* SpecPool: the same program with more workers, 1..MaxProc, on the lists  *)
(* of at most PoolVariants variants.                                       *)
(***************************************************************************)
PoolInit ==
    /\ PsIdle
    /\ varlist \in SortedLists(Variants(1, MaxPos), PoolVariants)
    /\ distlim \in 0..MaxDistlim
    /\ numproc \in 1..MaxProc
    /\ bam \in SUBSET Reads(1, MaxPos)
    /\ GrouperStart
    /\ PoolStart
    /\ RcIdle
    /\ EvIdle

SpecPool == PoolInit /\ [][Next]_vars

\* the scheduler lets the process run on while a thread of it can take a step
SpecPoolFair == SpecPool /\ WF_vars(Next)

(***************************************************************************)
(* SpecRefCache: 1..MaxProc workers calling fetch_refseq() at most         *)
(* MaxFetch times each, on the contigs 1..MaxContigs.                      *)
(***************************************************************************)
RcInit ==
    /\ PsIdle
    /\ varlist = <<>>
    /\ distlim = 0
    /\ numproc \in 1..MaxProc
    /\ bam = {}
    /\ GrouperStart
    /\ PoolStart
    /\ RcStart
    /\ EvIdle

RcNext ==
    \/ \E w \in Workers : FetchCall(w)
    \/ \E w \in Workers : FetchLock(w)
    \/ \E w \in Workers : FetchGet(w)
    \/ \E w \in Workers : FetchFound(w)
    \/ \E w \in Workers : FetchLoad(w)
    \/ \E w \in Workers : FetchPut(w)
    \/ \E w \in Workers : FetchUnlock(w)

SpecRefCache == RcInit /\ [][RcNext]_vars

(***************************************************************************)
(* SpecEval: evaluate_variants() on every set of 1..MaxSetN variants with  *)
(* every vector of at most MaxReads reads, each with at most MaxXA XA      *)
(* entries, with and without --pao and --mvh, hetbias being 0.5 (line      *)
(* 1013), which is 1 in halves.                                            *)
(***************************************************************************)
EvInit ==
    /\ PsIdle
    /\ InputIdle
    /\ GrouperStart
    /\ PoolStart
    /\ RcIdle
    /\ ev \in UNION {[pc : {"call"}, n : {n}, reads : ReadVectors(n, MaxReads),
                      pao : BOOLEAN, mvh : BOOLEAN, hetbias : {1},
                      u : {<<>>}, v : {<<>>}, ref : {0}, term : {<<>>},
                      ref_count : {<<>>}, alt_count : {<<>>}, out : {NULLSTR}]
                     : n \in 1..MaxSetN}

EvNext == EvalCall \/ EvalReads \/ EvalSums \/ EvalMarginal

SpecEval == EvInit /\ [][EvNext]_vars

(***************************************************************************)
(* SpecEnum: the combinations evaluate_variants() sets up for a set of     *)
(* 1..MaxN variants, for every maxh in 0..MaxMaxh, with and without --mvh. *)
(***************************************************************************)
EnumInit ==
    /\ PsIdle
    /\ InputIdle
    /\ GrouperStart
    /\ PoolStart
    /\ RcIdle
    /\ ev \in [pc : {"powerset"}, n : 1..MaxN, mvh : BOOLEAN, maxh : 0..MaxMaxh,
                combo : {<<>>}, ncombos : {0}, var_combo : {<<>>}, pd : {0}]

EnumNext == EnumPowerset \/ EnumParse \/ EnumPriors

SpecEnum == EnumInit /\ [][EnumNext]_vars

(***************************************************************************)
(* SpecAltseq: construct_altseq() on every reference sequence over {A, C}  *)
(* of 1..MaxRefLen bases and every list of at most MaxCombo variants that  *)
(* read_vcf() can hand on for it: sorted by position, not overlapping, the *)
(* REF column being "-" or the 1..MaxVarLen bases of the reference at pos  *)
(* and the ALT column "-" or the first 1..MaxVarLen characters of GTGT...  *)
(***************************************************************************)
RefSeqs == ListsUpTo({"A", "C"}, MaxRefLen) \ {<<>>}

AltStrings ==
    {<<"-">>} \cup {[k \in 1..l |-> IF k % 2 = 1 THEN "G" ELSE "T"] : l \in 1..MaxVarLen}

VcfVariants(refseq) ==
    {v \in [pos : 1..Len(refseq),
            ref : {<<"-">>} \cup UNION {{SubSeq(refseq, q, q + l - 1) :
                                              l \in 1..Min(MaxVarLen, Len(refseq) - q + 1)} :
                                            q \in 1..Len(refseq)},
            alt : AltStrings] :
        /\ ~(v.ref = <<"-">> /\ v.alt = <<"-">>)
        /\ v.ref # <<"-">> => /\ v.pos + Len(v.ref) - 1 <= Len(refseq)
                              /\ \A k \in 1..Len(v.ref) : v.ref[k] = refseq[v.pos + k - 1]}

RECURSIVE VcfLists(_, _)
VcfLists(refseq, len) ==
    IF len = 0 THEN {<<>>}
    ELSE LET shorter == VcfLists(refseq, len - 1)
             ext(l) == {Append(l, v) : v \in {x \in VcfVariants(refseq) :
                           l = <<>> \/ x.pos >= l[Len(l)].pos + Max(1, Len(var_ref(l[Len(l)])))}}
         IN  shorter \cup UNION {ext(l) : l \in {y \in shorter : Len(y) = len - 1}}

AltseqInit ==
    /\ PsIdle
    /\ InputIdle
    /\ GrouperStart
    /\ PoolStart
    /\ RcIdle
    /\ ev \in UNION {[pc : {"altseq_call"}, refseq : {r}, var_combo : VcfLists(r, MaxCombo),
                      i : {0}, offset : {0}, altseq : {<<>>}, altseq_length : {0}]
                     : r \in RefSeqs}

AltseqNext == AltseqCall \/ AltseqApply \/ AltseqReturn

SpecAltseq == AltseqInit /\ [][AltseqNext]_vars

(***************************************************************************)
(* SpecMatrix: the read probability matrix of every read of 1..MaxReadLen  *)
(* uppercase letters, among them the IUPAC codes R and M, with base        *)
(* qualities -1..-MaxQual, and the matrices of the read reverse            *)
(* complemented once and twice.                                            *)
(***************************************************************************)
Letters == {Code(ch) : ch \in {"A", "C", "G", "T", "N", "R", "M"}}

MatrixReads ==
    UNION {[qseq : [1..l -> Letters], qual : [1..l -> {-q : q \in 1..MaxQual}]]
           : l \in 1..MaxReadLen}

MatrixInit ==
    /\ PsIdle
    /\ InputIdle
    /\ GrouperStart
    /\ PoolStart
    /\ RcIdle
    /\ \E r \in MatrixReads :
          ev = [pc |-> "matrix", qseq |-> r.qseq, qual |-> r.qual,
                is_match |-> <<>>, no_match |-> <<>>, readprobmatrix |-> <<>>,
                seq |-> <<>>, rev_is_match |-> <<>>, rev_no_match |-> <<>>,
                newreadprobmatrix |-> <<>>, nrev |-> 0, ub |-> FALSE]

MatrixNext == MatrixSet \/ MatrixReverse

SpecMatrix == MatrixInit /\ [][MatrixNext]_vars

(***************************************************************************)
(* SpecXA: the XA entries of a read of chromosome 1 for a set of           *)
(* 1..MaxSetN variants on it, the first at position 100 and the others     *)
(* 1..MaxDistlim after their predecessor; the entries are on chromosome 1  *)
(* or 2, on either strand, at most MaxXaOff from position 100 + XaWindow.  *)
(***************************************************************************)
RECURSIVE XaSets(_)
XaSets(n) ==
    IF n = 1 THEN {<<[chr |-> 1, pos |-> 100]>>}
    ELSE {Append(l, [chr |-> 1, pos |-> l[Len(l)].pos + d]) :
             l \in XaSets(n - 1), d \in 1..MaxDistlim}

XaInit ==
    /\ PsIdle
    /\ InputIdle
    /\ GrouperStart
    /\ PoolStart
    /\ RcIdle
    /\ ev \in UNION {[pc : {"xa"}, n : {n}, set : XaSets(n), read : {[chr |-> 1]},
                      xa : [chr : {1, 2},
                            pos : {sg * (100 + XaWindow + d) :
                                      sg \in {-1, 1}, d \in (-MaxXaOff)..MaxXaOff}],
                      seti : {0}, readprobability : {<<>>}]
                     : n \in 1..MaxSetN}

XaNext == XaStep \/ XaDone

SpecXA == XaInit /\ [][XaNext]_vars

(***************************************************************************)
(* The hypothesis sets and the output, as the claims read them.            *)
(***************************************************************************)
\* the data lines of the output: everything after the header
DataLines == 2..Len(output)

\* the region of a set holds at least one read (lines 655-660)
HasReads(set) ==
    \E r \in bam : /\ r.chr = varlist[set[1]].chr
                   /\ varlist[set[1]].pos - 1 <= r.pos
                   /\ r.pos <= varlist[set[Len(set)]].pos - 1

Member(v, set) == \E k \in 1..Len(set) : set[k] = v

(***************************************************************************)
(* C1 as stated: in the final output every input variant has exactly one   *)
(* data line.  It fails: a variant next to a same-position pair is a       *)
(* member of both sets the pair is split into and is printed with each,    *)
(* and the variants of a set without reads are not printed.                *)
(***************************************************************************)
C1_OneLinePerVariant ==
    pc = "done" =>
        \A v \in 1..nvariants : Cardinality({k \in DataLines : output[k].v = v}) = 1

(***************************************************************************)
(* C1, amended: the final output has exactly one data line for every pair  *)
(* of a hypothesis set handed to the pool whose region holds reads and a   *)
(* member of that set: the line of variant v with set descriptor S occurs  *)
(* as often as S occurs among the sets with reads, and there is no other   *)
(* data line.                                                              *)
(***************************************************************************)
C1_OneLinePerSetMember ==
    pc = "done" =>
        /\ \A s \in 1..nsets : \A m \in 1..Len(var_set[s]) :
              Cardinality({k \in DataLines : output[k].v = var_set[s][m]
                                             /\ output[k].set = var_set[s]})
                = IF HasReads(var_set[s])
                  THEN Cardinality({t \in 1..nsets : var_set[t] = var_set[s]})
                  ELSE 0
        /\ \A k \in DataLines :
              \E s \in 1..nsets : /\ output[k].set = var_set[s]
                                  /\ Member(output[k].v, var_set[s])
                                  /\ output[k].chr = varlist[output[k].v].chr
                                  /\ output[k].pos = varlist[output[k].v].pos

\* a final output in which one variant has two data lines
C1_Witness ==
    /\ pc = "done"
    /\ \E v \in 1..nvariants : Cardinality({k \in DataLines : output[k].v = v}) >= 2

(***************************************************************************)
(* C2: for every n >= 1 and maxh >= 0 the number of combinations returned  *)
(* by powerset(n) equals min(2^n - 1, maxh + n + 1); in particular the     *)
(* number of combinations of intermediate size never exceeds maxh.         *)
(* powerset() tests the cap only after a whole size has been appended, so  *)
(* the statement fails (n = 3, maxh = 0 gives 7 combinations).             *)
(***************************************************************************)
C2_CountIsMin ==
    ps.pc = "return" =>
        /\ ps.ncombos = Min(Pow(2, ps.n) - 1, ps.maxh + ps.n + 1)
        /\ (ps.n >= 2 => ps.ncombos - ps.n - 1 <= ps.maxh)

(***************************************************************************)
(* C3: in the final output any two consecutive data lines are in natural   *)
(* order: chromosomes ascending and, on one chromosome, positions not      *)
(* descending.  qsort() orders the blocks, not their lines, so the blocks  *)
(* of two sets that share a variant interleave and the statement fails.    *)
(***************************************************************************)
C3_LinesInNaturalOrder ==
    pc = "done" =>
        \A k \in DataLines \ {Len(output)} :
            \/ output[k].chr < output[k + 1].chr
            \/ /\ output[k].chr = output[k + 1].chr
               /\ output[k].pos <= output[k + 1].pos

C5_SplitTerminates ==
    /\ pc = "dispatch" \/ ENABLED GrNext
    /\ pc = "dispatch" =>
          \A s \in 1..Len(var_set) : \A k, m \in 1..Len(var_set[s]) :
              k # m => varlist[var_set[s][k]].pos # varlist[var_set[s][m]].pos

(***************************************************************************)
(* C10: every job the main thread queues is popped by exactly one worker:  *)
(* never by two, and by one when the workers have been joined; and the     *)
(* results the main thread sorts are exactly the blocks of the jobs whose  *)
(* region holds reads, one block for each such job.                        *)
(***************************************************************************)
C10_EachJobOnce ==
    /\ \A k \in 1..Len(pops) : pops[k] <= 1
    /\ pc = "sort" =>
          /\ \A k \in 1..nsets : pops[k] = 1
          /\ results.size = Cardinality({k \in 1..nsets : HasReads(var_set[k])})
          /\ \A k \in 1..nsets :
                Cardinality({i \in 1..results.size :
                                results.data[i] = [m \in 1..Len(var_set[k]) |-> print_variant(var_set[k], m)]})
                  = IF HasReads(var_set[k])
                    THEN Cardinality({t \in 1..nsets : var_set[t] = var_set[k]})
                    ELSE 0

(***************************************************************************)
(* C6: with --pao the output is a function of the primary, mapped reads    *)
(* only: the block evaluate_variants() returns for a read vector equals    *)
(* the one it returns for the same vector without its SECONDARY and        *)
(* SUPPLEMENTARY reads and without XA tags.  It fails when the region      *)
(* holds such reads only: the vector is not empty, so a block is returned  *)
(* where the run without them returns NULL.                                *)
(***************************************************************************)
WithoutXA(r) == [r EXCEPT !.multimap = <<>>]

RECURSIVE PrimaryOnly(_, _)
PrimaryOnly(reads, k) ==
    IF k = 0 THEN <<>>
    ELSE IF is_secondary(reads[k]) THEN PrimaryOnly(reads, k - 1)
    ELSE Append(PrimaryOnly(reads, k - 1), WithoutXA(reads[k]))

C6_PrimaryReadsOnly ==
    (ev.pc = "return" /\ ev.pao) =>
        ev.out = evaluate_variants(ev.n, PrimaryOnly(ev.reads, Len(ev.reads)),
                                   ev.pao, ev.mvh, ev.hetbias)

(***************************************************************************)
(* C7: on every line evaluate_variants() emits, 0 <= has_alt_count and     *)
(* has_alt_count <= read_count.                                            *)
(***************************************************************************)
C7_CountsInRange ==
    ev.pc = "return" =>
        \A k \in 1..Len(ev.out) :
            /\ 0 <= ev.out[k].has_alt_count
            /\ ev.out[k].has_alt_count <= ev.out[k].read_count

\* a block of two lines in which a read supports the ALT allele of the first
\* variant and the reference for another combination
C7_Witness ==
    /\ ev.pc = "return"
    /\ Len(ev.out) >= 2
    /\ ev.out[1].has_alt_count >= 1
    /\ ev.out[1].has_alt_count < ev.out[1].read_count
    /\ ev.out[2].has_alt_count = 0

(***************************************************************************)
(* C8: on every line evaluate_variants() emits, prob <= 0: has_alt, the    *)
(* sum over the combinations containing the variant, does not exceed       *)
(* total.  total keeps the value of the last combination only (line 845),  *)
(* so for a set of two variants the statement fails.                       *)
(***************************************************************************)
C8_ProbNotPositive ==
    ev.pc = "return" =>
        \A k \in 1..Len(ev.out) : ev.out[k].has_alt <= ev.out[k].total

(***************************************************************************)
(* C9: for any number of workers and any interleaving of fetch_refseq()    *)
(* calls, no two workers are between the lock and the unlock at the same   *)
(* time, the cache holds exactly one Fasta for every contig name that has  *)
(* been inserted or returned, and every call for a name returns the same   *)
(* Fasta.                                                                  *)
(***************************************************************************)
InFetch(w) == fpc[w] \in {"get", "found", "load", "put", "unlock"}

C9_OneFastaPerName ==
    /\ \A v, w \in Workers : InFetch(v) /\ InFetch(w) => v = w
    /\ \A n \in DOMAIN refseq_hash :
          /\ Len(refseq_hash[n]) = 1
          /\ refseq_hash[n][1].name = n
    /\ \A a \in returned :
          /\ a.name \in DOMAIN refseq_hash
          /\ refseq_hash[a.name][1].id = a.id
    /\ \A a, b \in returned : a.name = b.name => a.id = b.id
    /\ \A w \in Workers : fpc[w] # "exit_err"

\* two workers have each been returned the Fasta of one contig, and a
\* second contig is in the cache
C9_Witness ==
    /\ \E a, b \in returned : a.name = b.name /\ a.by # b.by
    /\ Cardinality(DOMAIN refseq_hash) >= 2
    /\ \A w \in Workers : fpc[w] = "idle"

\* two workers have been joined after working on two or more jobs, some with
\* reads and some without
C10_Witness ==
    /\ pc = "sort"
    /\ numproc >= 2
    /\ nsets >= 2
    /\ results.size >= 1
    /\ results.size < nsets

(***************************************************************************)
(* C11: under fair scheduling and without a fatal error every worker       *)
(* eventually exits, for every number of workers and of jobs (zero too); a *)
(* worker exits only after vector_pop() has found the queue empty; the     *)
(* size of the queue never grows once the workers have been started; and   *)
(* the main thread sorts and writes only when every worker has exited.     *)
(***************************************************************************)
C11_WorkersExit ==
    /\ <>(pc = "abort" \/ (pc = "done" /\ \A w \in Workers : wpc[w] = "exit"))
    /\ [][\A w \in Workers :
             (wpc[w] # "exit" /\ wpc'[w] = "exit")
                => (wtmp[w] <= 0 /\ queue.size = 0 /\ warg[w] = NULL)]_vars
    /\ [][(pc \in {"join", "sort", "write", "done"}) => queue'.size <= queue.size]_vars
    /\ []((pc \in {"sort", "write", "done"} \/ output # <<>>)
            => \A w \in Workers : wpc[w] = "exit")

\* the output has been written after two workers have exited, with two or
\* more jobs of which one gave a block
C11_Witness ==
    /\ pc = "done"
    /\ numproc >= 2
    /\ nsets >= 2
    /\ Len(output) >= 2
    /\ \A w \in Workers : wpc[w] = "exit"

(***************************************************************************)
(* C12: with --mvh, for a hypothesis set of three or more variants no      *)
(* combination of an intermediate size 2..n-1 is enumerated: var_combo     *)
(* holds singletons and the full set only.  mvh is read by the priors of   *)
(* line 688 alone; powerset() is called as without it, so the combinations *)
(* of intermediate size are enumerated (and then evaluated by the loop of  *)
(* line 701) and the statement fails.                                      *)
(***************************************************************************)
C12_MvhNoIntermediate ==
    (ev.pc = "enumerated" /\ ev.mvh /\ ev.n >= 3) =>
        \A seti \in 1..Len(ev.var_combo) : Len(ev.var_combo[seti]) \in {1, ev.n}

(***************************************************************************)
(* C13: for a single insertion (p, "-", I) construct_altseq() returns a    *)
(* sequence of length len(ref) + len(I) in which the bases 1..p of ref are *)
(* unchanged, I follows the base at position p, and the bases of ref from  *)
(* position p + 1 on follow I unchanged.                                   *)
(***************************************************************************)
C13_InsertionAfterPos ==
    (/\ ev.pc = "altseq_return"
     /\ Len(ev.var_combo) = 1
     /\ ev.var_combo[1].ref = <<"-">>) =>
        LET p == ev.var_combo[1].pos
            I == ev.var_combo[1].alt
            n == Len(ev.refseq)
        IN  /\ ev.altseq_length = n + Len(I)
            /\ Len(ev.altseq) = n + Len(I)
            /\ \A k \in 1..p : ev.altseq[k] = ev.refseq[k]
            /\ \A k \in 1..Len(I) : ev.altseq[p + k] = I[k]
            /\ \A k \in (p + 1)..n : ev.altseq[k + Len(I)] = ev.refseq[k]

\* an insertion of two characters or more has been applied inside the
\* reference: bases remain on both sides of it
C13_Witness ==
    /\ ev.pc = "altseq_return"
    /\ Len(ev.var_combo) = 1
    /\ ev.var_combo[1].ref = <<"-">>
    /\ Len(ev.var_combo[1].alt) >= 2
    /\ ev.var_combo[1].pos < Len(ev.refseq)
    /\ Len(ev.altseq) = Len(ev.refseq) + Len(ev.var_combo[1].alt)

(***************************************************************************)
(* C14: construct_altseq() leaves what is outside the variants unchanged:  *)
(* with an empty variant list the result equals ref, and with one          *)
(* single-base substitution at pos p it has the length of ref and differs  *)
(* from ref at most at index p - 1.                                        *)
(***************************************************************************)
C14_FrameOfAltseq ==
    ev.pc = "altseq_return" =>
        /\ Len(ev.var_combo) = 0 =>
              (ev.altseq = ev.refseq /\ ev.altseq_length = Len(ev.refseq))
        /\ (/\ Len(ev.var_combo) = 1
            /\ ev.var_combo[1].ref # <<"-">> /\ Len(ev.var_combo[1].ref) = 1
            /\ ev.var_combo[1].alt # <<"-">> /\ Len(ev.var_combo[1].alt) = 1) =>
              /\ ev.altseq_length = Len(ev.refseq)
              /\ Len(ev.altseq) = Len(ev.refseq)
              /\ \A k \in 1..Len(ev.refseq) :
                    k - 1 # ev.var_combo[1].pos - 1 => ev.altseq[k] = ev.refseq[k]

\* a single-base substitution has been applied inside the reference and
\* has changed the base at its position
C14_Witness ==
    /\ ev.pc = "altseq_return"
    /\ Len(ev.var_combo) = 1
    /\ ev.var_combo[1].ref # <<"-">> /\ Len(ev.var_combo[1].ref) = 1
    /\ ev.var_combo[1].alt # <<"-">> /\ Len(ev.var_combo[1].alt) = 1
    /\ ev.var_combo[1].pos > 1
    /\ ev.var_combo[1].pos < Len(ev.refseq)
    /\ ev.altseq[ev.var_combo[1].pos] # ev.refseq[ev.var_combo[1].pos]

(***************************************************************************)
(* C15: for every read over {A, C, G, T, N} the reverse complement of the  *)
(* reverse complement is the read, reversing is_match[] and no_match[]     *)
(* twice gives them back, and the matrix built from the read reverse       *)
(* complemented twice equals the matrix of the read.                       *)
(***************************************************************************)
OverACGTN(seq) == \A b \in 1..Len(seq) : seq[b] \in {Code(ch) : ch \in {"A", "C", "G", "T", "N"}}

C15_DoubleReverse ==
    (ev.pc = "reverse" /\ ev.nrev = 2 /\ OverACGTN(ev.qseq)) =>
        /\ ev.seq = ev.qseq
        /\ reverse_compl(reverse_compl(ev.qseq)) = ev.qseq
        /\ ev.rev_is_match = ev.is_match
        /\ ev.rev_no_match = ev.no_match
        /\ ev.newreadprobmatrix = ev.readprobmatrix
        /\ ~ev.ub

\* a read of two bases or more that is not its own reverse complement, with
\* qualities that differ, has been reverse complemented twice
C15_Witness ==
    /\ ev.pc = "reverse"
    /\ ev.nrev = 2
    /\ OverACGTN(ev.qseq)
    /\ Len(ev.qseq) >= 2
    /\ reverse_compl(ev.qseq) # ev.qseq
    /\ reverse(ev.is_match) # ev.is_match
    /\ \E b \in 1..Len(ev.qseq) : ev.qseq[b] = Code("G")

(***************************************************************************)
(* C16: in the table as main() leaves it every letter A..Z other than A,   *)
(* T, G, C maps to 4 (A, T, G, C map to 0, 1, 2, 3), so that every column  *)
(* set_prob_matrix() and calc_prob() compute for a sequence of uppercase   *)
(* letters is in 0..4.  memset() fills the bytes of the table, not its     *)
(* ints, so the letters that are not set one by one map to 67372036 and    *)
(* the statement fails.                                                    *)
(***************************************************************************)
C16_ColumnsInRange ==
    ev.pc # "matrix" =>
        /\ \A i \in 0..25 :
              seqnt_map[i] = (CASE i = Code("A") - Code("A") -> 0
                                [] i = Code("T") - Code("A") -> 1
                                [] i = Code("G") - Code("A") -> 2
                                [] i = Code("C") - Code("A") -> 3
                                [] OTHER -> 4)
        /\ ~ev.ub
        /\ \A b \in 1..Len(ev.qseq) : Column(ev.qseq, b) \in 0..4

(***************************************************************************)
(* C17: for every n >= 1 and maxh >= 0 powerset() emits the n singletons,  *)
(* then (n >= 2) the full set, then the subsets of size 2, 3, ..., n - 1   *)
(* in ascending size; within one size the index vectors are in             *)
(* lexicographic order, every vector is strictly ascending, and no subset  *)
(* is emitted twice.  Emitted is what the string holds after each call of  *)
(* combinations(), read as evaluate_variants() reads it (indices from 1).  *)
(***************************************************************************)
Emitted == ParseCombos(ps.combo, 1, <<>>, <<>>, ps.ncombos)

LexLess(a, b) ==
    \E i \in 1..Len(a) : a[i] < b[i] /\ \A j \in 1..(i - 1) : a[j] = b[j]

C17_EmissionOrder ==
    LET e == Emitted
        n == ps.n
    IN  /\ Len(e) = ps.ncombos
        /\ ps.pc # "k1" => Len(e) >= n
        /\ (ps.pc = "return" /\ n >= 2) => Len(e) >= n + 1
        /\ \A j \in 1..Len(e) :
              /\ \A i \in 1..Len(e[j]) : e[j][i] \in 1..n
              /\ \A i \in 1..(Len(e[j]) - 1) : e[j][i] < e[j][i + 1]
              /\ j <= n => e[j] = <<j>>
              /\ j = n + 1 => e[j] = [i \in 1..n |-> i]
              /\ j > n + 1 => Len(e[j]) \in 2..(n - 1)
              /\ j = n + 2 => e[j] = <<1, 2>>
              /\ (j > n + 1 /\ j < Len(e)) =>
                    \/ Len(e[j + 1]) = Len(e[j]) /\ LexLess(e[j], e[j + 1])
                    \/ /\ Len(e[j + 1]) = Len(e[j]) + 1
                       /\ e[j] = [i \in 1..Len(e[j]) |-> n - Len(e[j]) + i]
                       /\ e[j + 1] = [i \in 1..Len(e[j + 1]) |-> i]
        /\ \A j, m \in 1..Len(e) : j # m => e[j] # e[m]

\* powerset() has returned every subset of a set of four or more variants:
\* two intermediate sizes have been emitted
C17_Witness ==
    /\ ps.pc = "return"
    /\ ps.n >= 4
    /\ ps.ncombos = Pow(2, ps.n) - 1
    /\ Len(Emitted[ps.ncombos]) = ps.n - 1

(***************************************************************************)
(* C18: for every variant v of the set and every enumerated combination c  *)
(* the term log_add_exp(alt[c], het[c]) is folded into has_alt of v if and *)
(* only if v is a member of c and into not_alt of v if and only if it is   *)
(* not; ref is folded into not_alt only; and has_alt_count of v is the     *)
(* largest alt_count[c] over exactly the combinations that contain v.  In  *)
(* the numbers the model keeps, folding is addition.                       *)
(***************************************************************************)
InCombo(v, c) == \E k \in 1..Len(c) : c[k] = v

RECURSIVE SumTerms(_, _, _, _, _)
SumTerms(term, var_combo, v, in, k) ==
    IF k = 0 THEN 0
    ELSE SumTerms(term, var_combo, v, in, k - 1)
         + (IF InCombo(v, var_combo[k]) = in THEN term[k] ELSE 0)

C18_MarginalsByMembership ==
    (ev.pc = "return" /\ ev.out # NULLSTR) =>
        LET var_combo == Combos[ev.n].var_combo
            ncombos == Combos[ev.n].ncombos
        IN  \A v \in 1..ev.n :
               /\ ev.out[v].has_alt = SumTerms(ev.term, var_combo, v, TRUE, ncombos)
               /\ ev.out[v].not_alt = ev.ref + SumTerms(ev.term, var_combo, v, FALSE, ncombos)
               /\ \A seti \in 1..ncombos :
                     InCombo(v, var_combo[seti]) => ev.out[v].has_alt_count >= ev.alt_count[seti]
               /\ \/ ev.out[v].has_alt_count = 0
                  \/ \E seti \in 1..ncombos : /\ InCombo(v, var_combo[seti])
                                               /\ ev.out[v].has_alt_count = ev.alt_count[seti]

\* a block of two lines whose marginals differ: the read supports one
\* variant of the set and not the other
C18_Witness ==
    /\ ev.pc = "return"
    /\ ev.out # NULLSTR
    /\ Len(ev.out) >= 2
    /\ ev.out[1].has_alt # ev.out[2].has_alt
    /\ ev.out[1].not_alt > ev.ref
    /\ ev.out[1].has_alt_count # ev.out[2].has_alt_count

(***************************************************************************)
(* C19: for every combination c of a set V = [v1..vn] the read probability *)
(* of an XA entry is computed again on altseq_c exactly when the entry is  *)
(* on the chromosome of the read and its position is within 50 of the      *)
(* position of v1, the first variant of V, whatever the combination.  The  *)
(* test of line 802 reads the first variant of the combination, not of the *)
(* set, so for a combination without v1 the statement fails.               *)
(***************************************************************************)
C19_NearFirstOfSet ==
    \A seti \in 1..Len(ev.readprobability) :
        (ev.readprobability[seti].seq = "altseq")
            <=> (/\ ev.xa.chr = ev.read.chr
                 /\ Abs((Abs(ev.xa.pos) - 1) - ev.set[1].pos) < XaWindow)

(***************************************************************************)
(* C20: when the read fetch for the region of a set returns no reads the   *)
(* evaluation emits nothing for the set: the worker adds no block to the   *)
(* results and goes on to pop the next job, the results hold blocks of     *)
(* sets with reads only, and no output line carries the set.               *)
(***************************************************************************)
C20_NoReadsNoOutput ==
    /\ [][\A w \in Workers :
             (/\ wpc[w] = "eval"
              /\ wpc'[w] # "eval"
              /\ ~HasReads(var_set[warg[w]]))
                => /\ wpc'[w] = "lock_q"
                   /\ wout'[w] = NULLSTR
                   /\ results' = results]_vars
    /\ [](\A i \in 1..results.size :
             \E s \in 1..nsets :
                /\ HasReads(var_set[s])
                /\ results.data[i] = [m \in 1..Len(var_set[s]) |-> print_variant(var_set[s], m)])
    /\ [](\A k \in DataLines : HasReads(output[k].set))

\* a single worker has first popped a job without reads and then one with
\* reads, and the output has been written
C20_Witness ==
    /\ pc = "done"
    /\ numproc = 1
    /\ nsets >= 2
    /\ ~HasReads(var_set[nsets])
    /\ HasReads(var_set[1])
    /\ Len(output) >= 2

(***************************************************************************)
(* C21: for every sorted variant list, the number of hypothesis sets that  *)
(* exist at any point of the same-position splitting (the sets of the      *)
(* round and the duplicates stored in it so far) never exceeds             *)
(* 2 * nvariants, the number of entries malloc'ed for var_set at line 917, *)
(* and no store of line 941 falls outside these entries.  Five variants at *)
(* one position refute it: the third round starts with 8 sets and stores 8 *)
(* more, the last six of them at var_set[10..15].                          *)
(***************************************************************************)
C21_SetsWithinCapacity ==
    /\ ~ub
    /\ Len(var_set) <= nvariants * 2

(***************************************************************************)
(* C22: for every hypothesis set, each evaluated read adds at most one to  *)
(* ref_count[c] or alt_count[c] of a combination c, and the read_count of  *)
(* every emitted line, max_c ref_count[c] + max_c alt_count[c], does not   *)
(* exceed the number of reads evaluated, hence not the number of reads     *)
(* fetched.  The two maxima are taken over different combinations: one     *)
(* read that carries the ALT allele of the first variant of a set of two   *)
(* counts as ALT for the combination {1} and as REF for {2}, and the line  *)
(* reports 2 reads where 1 was fetched.                                    *)
(***************************************************************************)
C22_ReadCountWithinReads ==
    ev.pc = "return" =>
        LET evaluated == {k \in 1..Len(ev.reads) : Evaluated(ev.reads[k], ev.pao)}
        IN  /\ \A c \in 1..Len(ev.ref_count) :
                  ev.ref_count[c] + ev.alt_count[c] <= Cardinality(evaluated)
            /\ \A k \in 1..Len(ev.out) :
                  /\ ev.out[k].read_count <= Cardinality(evaluated)
                  /\ ev.out[k].read_count <= Len(ev.reads)

(***************************************************************************)
(* C23: in combinations(k, n), for every 1 <= k <= n, every read and write *)
(* of the index array c uses an index in 0..k-1, the carry loop that runs  *)
(* after the last combination of size k included.  The carry loop refutes  *)
(* it in every call: when c[0] has reached n - k + 1 the body runs with    *)
(* i = 0, and --i; ++c[i] increments c[-1].                                *)
(***************************************************************************)
C23_IndexInRange ==
    /\ ~ps.oob
    /\ ps.pc # "abort"

=============================================================================
